---- MODULE Spec2Model ----
(***************************************************************************)
(* Validator-side miner index store of data-universe:                      *)
(* SqliteMemoryValidatorStorage and its label interner AutoIncrementDict   *)
(* (src/storage/validator/sqlite_memory_validator_storage.py).             *)
(*                                                                         *)
(* Two specifications share the store's state and the operators that model *)
(* the SQL statements:                                                     *)
(*   Spec      the public operations called one after the other, each as   *)
(*             one step;                                                   *)
(*   ConcSpec  worker threads whose calls interleave wherever the code     *)
(*             does not hold self.lock.                                    *)
(***************************************************************************)
EXTENDS Integers, Sequences, FiniteSets, TLC

(***************************************************************************)
(* IEEE 754 binary64 arithmetic on non-negative values, as SQLite uses for *)
(* REAL operands.  A 60-bit natural is a pair <<hi, lo>> of 30-bit limbs,  *)
(* a finite double is [m |-> 53-bit significand, e |-> exponent] with      *)
(* value m * 2^e, and zero is [m |-> <<0, 0>>, e |-> 0].  Every operation  *)
(* rounds to nearest, ties to even.  The values of the model stay far from *)
(* the exponent range's ends, so there are no subnormals or infinities.    *)
(***************************************************************************)
SignificandBits == 53

Pow2(k) == 2 ^ k

Limb == Pow2(30)

\* The number of bits of n < 2^30.
BitLen(n) == CHOOSE k \in 0..30 : n < Pow2(k) /\ (k = 0 \/ n >= Pow2(k - 1))

UZero == <<0, 0>>

UFromInt(n) == <<0, n>>

UBitLen(a) == IF a[1] > 0 THEN 30 + BitLen(a[1]) ELSE BitLen(a[2])

UAdd(a, b) ==
    LET lo == a[2] + b[2]
    IN  <<a[1] + b[1] + (IF lo >= Limb THEN 1 ELSE 0), lo % Limb>>

\* a - b, for a >= b
USub(a, b) ==
    IF a[2] >= b[2] THEN <<a[1] - b[1], a[2] - b[2]>>
    ELSE <<a[1] - b[1] - 1, a[2] + Limb - b[2]>>

ULess(a, b) == a[1] < b[1] \/ (a[1] = b[1] /\ a[2] < b[2])

\* a * 2^d, the product below 2^60
UShl(a, d) ==
    IF d >= 30 THEN <<a[2] * Pow2(d - 30), 0>>
    ELSE <<a[1] * Pow2(d) + a[2] \div Pow2(30 - d), (a[2] % Pow2(30 - d)) * Pow2(d)>>

\* floor(a / 2^d)
UShr(a, d) ==
    IF d >= 60 THEN UZero
    ELSE IF d >= 30 THEN <<0, a[1] \div Pow2(d - 30)>>
    ELSE <<a[1] \div Pow2(d), a[2] \div Pow2(d) + (a[1] % Pow2(d)) * Pow2(30 - d)>>

\* a mod 2^d
ULow(a, d) == USub(a, UShl(UShr(a, d), d))

\* n * a for a small natural n, by doubling
RECURSIVE UMulInt(_, _)
UMulInt(n, a) ==
    IF n = 0 THEN UZero
    ELSE LET half == UMulInt(n \div 2, a)
             twice == UAdd(half, half)
         IN  IF n % 2 = 1 THEN UAdd(twice, a) ELSE twice

DZero == [m |-> UZero, e |-> 0]

DIsZero(x) == x.m = UZero

\* The double nearest to (n + f) * 2^e, where 0 <= f < 1 and sticky says f > 0.
DRound(n, e, sticky) ==
    LET len == UBitLen(n)
    IN  IF n = UZero THEN DZero
        ELSE IF len <= SignificandBits
        THEN [m |-> UShl(n, SignificandBits - len), e |-> e - (SignificandBits - len)]
        ELSE LET d    == len - SignificandBits
                 q    == UShr(n, d)
                 r    == ULow(n, d)
                 half == UShl(UFromInt(1), d - 1)
                 up   == \/ ULess(half, r)
                         \/ r = half /\ (sticky \/ q[2] % 2 = 1)
                 q1   == IF up THEN UAdd(q, UFromInt(1)) ELSE q
             IN  IF UBitLen(q1) > SignificandBits
                 THEN [m |-> UShr(q1, 1), e |-> e + d + 1]
                 ELSE [m |-> q1, e |-> e + d]

\* An INTEGER operand converted to REAL.
DFromInt(n) == DRound(UFromInt(n), 0, FALSE)

\* INTEGER * REAL: the integer is converted exactly, the product rounded once.
DMulInt(n, x) == DRound(UMulInt(n, x.m), x.e, FALSE)

\* REAL + REAL, with three guard bits and a sticky bit.
DAdd(x, y) ==
    IF DIsZero(x) THEN y
    ELSE IF DIsZero(y) THEN x
    ELSE LET big   == IF x.e >= y.e THEN x ELSE y
             small == IF x.e >= y.e THEN y ELSE x
             d     == big.e - small.e
             a     == UShl(big.m, 3)
             b8    == UShl(small.m, 3)
             b     == UShr(b8, d)
             lost  == IF d >= 60 THEN TRUE ELSE ULow(b8, d) # UZero
         IN  DRound(UAdd(a, b), big.e - 3, lost)

\* One radix-128 step of long division: the next quotient digit of the
\* remainder r < den, estimated from the high limbs and then made exact.
DivDigit(r, den) ==
    LET n   == UShl(r, 7)
        est == n[1] \div den[1]
        d   == CHOOSE c \in {est - 1, est, est + 1} :
                   /\ c >= 0
                   /\ ~ULess(n, UMulInt(c, den))
                   /\ ULess(n, UMulInt(c + 1, den))
    IN  [digit |-> d, rem |-> USub(n, UMulInt(d, den))]

\* Long division: from quotient q and remainder r, `digits` more radix-128
\* quotient digits.
RECURSIVE LongDiv(_, _, _, _)
LongDiv(q, r, den, digits) ==
    IF digits = 0 THEN <<q, r>>
    ELSE LET step == DivDigit(r, den)
         IN  LongDiv(UAdd(UShl(q, 7), UFromInt(step.digit)), step.rem, den, digits - 1)

\* REAL / REAL for a non-zero divisor: 57 quotient bits and a sticky bit.
DDiv(x, y) ==
    IF DIsZero(x) THEN DZero
    ELSE LET one == ~ULess(x.m, y.m)
             qr  == LongDiv(UFromInt(IF one THEN 1 ELSE 0),
                            IF one THEN USub(x.m, y.m) ELSE x.m, y.m, 8)
         IN  DRound(qr[1], x.e - y.e - 56, qr[2] # UZero)

\* Python's int(float): truncation toward zero (the values here are below 2^30).
DTrunc(x) == IF DIsZero(x) THEN 0 ELSE UShr(x.m, 0 - x.e)[2]

(***************************************************************************)
(* The values the calls are made with.                                     *)
(***************************************************************************)
Hotkeys == {"h1", "h2"}

\* DataSource.REDDIT and DataSource.X, the two sources read_miner_index reads.
REDDIT == 1

X == 2

Sources == {REDDIT, X}

\* A label is None, a string, or (BadLabel) a value the label parse raises on.
None == "<None>"

BadLabel == "<bad>"

Labels == {None, "a", "A", "b", BadLabel}

\* Credibilities 0.0, 0.3 and 1.0 as binary64 values.
Credibility0 == DZero

Credibility03 == [m |-> <<5033164, 858993459>>, e |-> -54]

Credibility1 == [m |-> <<4194304, 0>>, e |-> -52]

Credibilities == {Credibility0, Credibility03, Credibility1}

\* The most upsert calls of one behaviour; each call reads a later clock value.
MaxTime == 2

\* CompressedEntityBucket(label, time_bucket_ids, sizes_bytes)
CompressedEntityBucket(l, t, s) ==
    [label |-> l, time_bucket_ids |-> t, sizes_bytes |-> s]

\* CompressedMinerIndex(sources = {REDDIT: r, X: x})
CompressedMinerIndex(r, x) == [src \in Sources |-> IF src = REDDIT THEN r ELSE x]

\* One Reddit bucket.
IndexOneBucket ==
    CompressedMinerIndex(<<CompressedEntityBucket("a", <<1>>, <<21>>)>>, <<>>)

\* One key submitted twice.
IndexRepeatedKey ==
    CompressedMinerIndex(<<CompressedEntityBucket("a", <<1, 1>>, <<21, 100>>)>>, <<>>)

\* A label that cannot be parsed beside a bucket whose two lists differ in length.
IndexBadLabel ==
    CompressedMinerIndex(<<CompressedEntityBucket(BadLabel, <<1>>, <<21>>),
                           CompressedEntityBucket("b", <<2>>, <<21, 100>>)>>, <<>>)

\* The indexes miners submit: empty, one bucket, one label over two time
\* buckets, the same key three times (by letter case and by a repeated time
\* bucket), a label that cannot be parsed, and buckets without a label.
Indexes ==
    { CompressedMinerIndex(<<>>, <<>>),
      IndexOneBucket,
      CompressedMinerIndex(<<CompressedEntityBucket("A", <<1, 2>>, <<100, 21>>)>>,
                           <<CompressedEntityBucket("a", <<1>>, <<21>>)>>),
      CompressedMinerIndex(<<CompressedEntityBucket("a", <<1>>, <<100>>),
                             CompressedEntityBucket("A", <<1, 1>>, <<21, 0>>)>>,
                           <<CompressedEntityBucket(None, <<1>>, <<100>>)>>),
      IndexBadLabel,
      CompressedMinerIndex(<<CompressedEntityBucket(None, <<1>>, <<0>>)>>,
                           <<CompressedEntityBucket("b", <<2, 1>>, <<100, 100>>)>>) }

(***************************************************************************)
(* AutoIncrementDict.  An id i is the slot items[i + 1]; a freed slot      *)
(* holds FreeSlot (Python's None).                                         *)
(***************************************************************************)
FreeSlot == "<free>"

EmptyDict == [available_ids |-> {}, items |-> <<>>, indexes |-> <<>>]

\* Deviation from get_or_insert: a reused slot is given to the key without
\* self.items[key_id] = key.
GetOrInsertSlotNotSet(d, key, popped) ==
    IF key \in DOMAIN d.indexes THEN d
    ELSE IF d.available_ids # {}
    THEN [available_ids |-> d.available_ids \ {popped},
          items         |-> d.items,
          indexes       |-> [k \in DOMAIN d.indexes \cup {key} |->
                                IF k = key THEN popped ELSE d.indexes[k]]]
    ELSE [available_ids |-> d.available_ids,
          items         |-> Append(d.items, key),
          indexes       |-> [k \in DOMAIN d.indexes \cup {key} |->
                                IF k = key THEN Len(d.items) ELSE d.indexes[k]]]

\* get_or_insert when available_ids.pop() returns `popped`: the dict after it.
GetOrInsertWith(d, key, popped) ==
    IF key \in DOMAIN d.indexes THEN d
    ELSE IF d.available_ids # {}
    THEN [available_ids |-> d.available_ids \ {popped},
          items         |-> [d.items EXCEPT ![popped + 1] = key],
          indexes       |-> [k \in DOMAIN d.indexes \cup {key} |->
                                IF k = key THEN popped ELSE d.indexes[k]]]
    ELSE [available_ids |-> d.available_ids,
          items         |-> Append(d.items, key),
          indexes       |-> [k \in DOMAIN d.indexes \cup {key} |->
                                IF k = key THEN Len(d.items) ELSE d.indexes[k]]]

\* get_or_insert as the store calls it: it never calls delete_key, so the
\* reuse pool is empty whenever it gets here.
GetOrInsert(d, key) ==
    GetOrInsertWith(d, key, IF d.available_ids = {} THEN 0
                            ELSE CHOOSE i \in d.available_ids : TRUE)

GetById(d, id) == d.items[id + 1]

\* Deviation from delete_key: the freed id is not added to available_ids.
DeleteKeyIdNotPooled(d, key) ==
    IF key \in DOMAIN d.indexes
    THEN [available_ids |-> d.available_ids,
          items         |-> [d.items EXCEPT ![d.indexes[key] + 1] = FreeSlot],
          indexes       |-> [k \in DOMAIN d.indexes \ {key} |-> d.indexes[k]]]
    ELSE d

DeleteKey(d, key) ==
    IF key \in DOMAIN d.indexes
    THEN [available_ids |-> d.available_ids \cup {d.indexes[key]},
          items         |-> [d.items EXCEPT ![d.indexes[key] + 1] = FreeSlot],
          indexes       |-> [k \in DOMAIN d.indexes \ {key} |-> d.indexes[k]]]
    ELSE d

(***************************************************************************)
(* The shared in-memory database: the Miner table and one bucket table per *)
(* source, each a set of rows.                                             *)
(***************************************************************************)
EmptyDb == [Miner |-> {}, Reddit |-> {}, Twitter |-> {}]

TableOf(database, source) ==
    IF source = REDDIT THEN database.Reddit ELSE database.Twitter

\* SELECT ... FROM Miner WHERE hotkey = ?  (UNIQUE(hotkey): at most one row)
MinerRows(database, hotkey) == {r \in database.Miner : r.hotkey = hotkey}

\* The rowid SQLite gives a row inserted with a NULL INTEGER PRIMARY KEY: one
\* more than the largest in use.
NextRowId(miners) ==
    IF miners = {} THEN 1
    ELSE (CHOOSE i \in {r.minerId : r \in miners} :
              \A r \in miners : r.minerId <= i) + 1

\* Deviation from _upsert_miner: INSERT OR REPLACE, which deletes the row of
\* the hotkey and inserts one under a new rowid.
UpsertMinerRowsReplace(miners, hotkey, now_str, credibility) ==
    {r \in miners : r.hotkey # hotkey}
        \cup {[minerId     |-> NextRowId(miners),
               hotkey      |-> hotkey,
               lastUpdated |-> now_str,
               credibility |-> credibility]}

\* _upsert_miner's UPDATE OR IGNORE followed by INSERT OR IGNORE.
UpsertMinerRows(miners, hotkey, now_str, credibility) ==
    LET updated == {IF r.hotkey = hotkey
                    THEN [r EXCEPT !.lastUpdated = now_str, !.credibility = credibility]
                    ELSE r : r \in miners}
    IN  IF \E r \in updated : r.hotkey = hotkey THEN updated
        ELSE updated \cup {[minerId     |-> NextRowId(updated),
                            hotkey      |-> hotkey,
                            lastUpdated |-> now_str,
                            credibility |-> credibility]}

\* _upsert_miner: the database after it; UpsertMinerId is the id it returns.
UpsertMiner(database, hotkey, now_str, credibility) ==
    [database EXCEPT !.Miner = UpsertMinerRows(@, hotkey, now_str, credibility)]

UpsertMinerId(database, hotkey) ==
    (CHOOSE r \in database.Miner : r.hotkey = hotkey).minerId

\* _label_value_parse_str; str.casefold over the labels of the model.
Casefold(label) == IF label = "A" THEN "a" ELSE label

\* Deviation from _label_value_parse_str: the label kept in the case given.
LabelValueParseStrExact(label) == IF label = None THEN "NULL" ELSE label

LabelValueParseStr(label) == IF label = None THEN "NULL" ELSE Casefold(label)

\* Whether the try body of the parse loop raises for this label.
LabelRaises(label) == label = BadLabel

\* zip(time_bucket_ids, sizes_bytes) of one compressed bucket, with its label.
ZipBucket(cb) ==
    LET n == IF Len(cb.time_bucket_ids) <= Len(cb.sizes_bytes)
             THEN Len(cb.time_bucket_ids) ELSE Len(cb.sizes_bytes)
    IN  [i \in 1..n |-> [label          |-> cb.label,
                         time_bucket_id |-> cb.time_bucket_ids[i],
                         size_bytes     |-> cb.sizes_bytes[i]]]

\* The (label, time bucket, size) entries of one source in the order the
\* parse loop visits them.
RECURSIVE SourceEntries(_)
SourceEntries(compressed_buckets) ==
    IF compressed_buckets = <<>> THEN <<>>
    ELSE ZipBucket(Head(compressed_buckets)) \o SourceEntries(Tail(compressed_buckets))

\* One pass of the innermost loop body: the value row appended for an entry.
ValueRow(d, miner_id, entry) ==
    [minerId          |-> miner_id,
     labelId          |-> d.indexes[LabelValueParseStr(entry.label)],
     timeBucketId     |-> entry.time_bucket_id,
     contentSizeBytes |-> entry.size_bytes]

\* Deviation from the parse loop: the try around the whole loop, so that the
\* first label that raises ends it.
RECURSIVE ParseEntriesUntilRaise(_, _, _, _)
ParseEntriesUntilRaise(d, entries, miner_id, values) ==
    IF entries = <<>> THEN [label_dict |-> d, values |-> values]
    ELSE IF LabelRaises(Head(entries).label)
    THEN [label_dict |-> d, values |-> values]
    ELSE LET d2 == GetOrInsert(d, LabelValueParseStr(Head(entries).label))
         IN  ParseEntriesUntilRaise(d2, Tail(entries), miner_id,
                                    Append(values, ValueRow(d2, miner_id, Head(entries))))

\* The parse loop over the entries of one source: the interner after it and
\* the rows collected, an entry whose label raises dropped.
RECURSIVE ParseEntries(_, _, _, _)
ParseEntries(d, entries, miner_id, values) ==
    IF entries = <<>> THEN [label_dict |-> d, values |-> values]
    ELSE IF LabelRaises(Head(entries).label)
    THEN ParseEntries(d, Tail(entries), miner_id, values)
    ELSE LET d2 == GetOrInsert(d, LabelValueParseStr(Head(entries).label))
         IN  ParseEntries(d2, Tail(entries), miner_id,
                          Append(values, ValueRow(d2, miner_id, Head(entries))))

\* The parse loop over index.sources: reddit_values, twitter_values and the
\* interner after it.
ParseIndex(d, index, miner_id) ==
    LET reddit  == ParseEntries(d, SourceEntries(index[REDDIT]), miner_id, <<>>)
        twitter == ParseEntries(reddit.label_dict, SourceEntries(index[X]), miner_id, <<>>)
    IN  [label_dict     |-> twitter.label_dict,
         reddit_values  |-> reddit.values,
         twitter_values |-> twitter.values]

SamePrimaryKey(r, v) ==
    r.minerId = v.minerId /\ r.labelId = v.labelId /\ r.timeBucketId = v.timeBucketId

\* executemany("INSERT OR IGNORE INTO <table> ..."): a row whose primary key
\* is taken is skipped.
RECURSIVE InsertOrIgnore(_, _)
InsertOrIgnore(table, values) ==
    IF values = <<>> THEN table
    ELSE InsertOrIgnore(
             IF \E r \in table : SamePrimaryKey(r, Head(values)) THEN table
             ELSE table \cup {Head(values)},
             Tail(values))

\* Deviation from _delete_miner_index: only the Reddit records are deleted.
DeleteMinerIndexRedditOnly(database, miner_hotkey) ==
    LET result == MinerRows(database, miner_hotkey)
    IN  IF result = {} THEN database
        ELSE LET id == (CHOOSE r \in result : TRUE).minerId
             IN  [database EXCEPT !.Reddit = {r \in @ : r.minerId # id}]

\* _delete_miner_index
DeleteMinerIndex(database, miner_hotkey) ==
    LET result == MinerRows(database, miner_hotkey)
    IN  IF result = {} THEN database
        ELSE LET id == (CHOOSE r \in result : TRUE).minerId
             IN  [database EXCEPT !.Reddit  = {r \in @ : r.minerId # id},
                                  !.Twitter = {r \in @ : r.minerId # id}]

\* Deviation from the second critical section: the new records are merged into
\* the stored ones, a record already stored growing by the size submitted.
RECURSIVE InsertOrAdd(_, _)
InsertOrAdd(table, values) ==
    IF values = <<>> THEN table
    ELSE InsertOrAdd(
             {IF SamePrimaryKey(r, Head(values))
              THEN [r EXCEPT !.contentSizeBytes = @ + Head(values).contentSizeBytes]
              ELSE r : r \in table}
             \cup (IF \E r \in table : SamePrimaryKey(r, Head(values)) THEN {}
                   ELSE {Head(values)}),
             Tail(values))

MergeMinerIndex(database, hotkey, reddit_values, twitter_values) ==
    [database EXCEPT !.Reddit  = InsertOrAdd(@, reddit_values),
                     !.Twitter = InsertOrAdd(@, twitter_values)]

\* The second critical section of upsert_compressed_miner_index.
ReplaceMinerIndex(database, hotkey, reddit_values, twitter_values) ==
    LET cleared == DeleteMinerIndex(database, hotkey)
    IN  [cleared EXCEPT !.Reddit  = InsertOrIgnore(@, reddit_values),
                        !.Twitter = InsertOrIgnore(@, twitter_values)]

\* Deviation from delete_miner: the Miner row is kept.
KeepMinerRow(miners, hotkey) == miners

\* DELETE FROM Miner WHERE hotkey = ?
DeleteMinerRow(miners, hotkey) == {r \in miners : r.hotkey # hotkey}

\* Deviation from delete_miner: the bucket records are kept.
DeleteMinerKeepRecords(database, hotkey) ==
    [database EXCEPT !.Miner = DeleteMinerRow(@, hotkey)]

\* delete_miner
DeleteMiner(database, hotkey) ==
    [DeleteMinerIndex(database, hotkey) EXCEPT !.Miner = DeleteMinerRow(@, hotkey)]

(***************************************************************************)
(* read_miner_index: the scoring query and _process_read_results.          *)
(***************************************************************************)
\* SQL NULL, beside the REAL values.
SqlNull == [null |-> TRUE]

\* The rows of a bucket table in primary key order.
RowBefore(r, v) ==
    \/ r.minerId < v.minerId
    \/ r.minerId = v.minerId /\ r.labelId < v.labelId
    \/ r.minerId = v.minerId /\ r.labelId = v.labelId /\ r.timeBucketId < v.timeBucketId

RECURSIVE RowsInOrder(_)
RowsInOrder(rows) ==
    IF rows = {} THEN <<>>
    ELSE LET first == CHOOSE r \in rows : \A v \in rows \ {r} : RowBefore(r, v)
         IN  <<first>> \o RowsInOrder(rows \ {first})

\* The rows TempAgg groups under (labelId, timeBucketId): those of the table
\* that JOIN Miner USING (minerId) keeps.
GroupRows(database, source, labelId, timeBucketId) ==
    {r \in TableOf(database, source) :
        /\ r.labelId = labelId
        /\ r.timeBucketId = timeBucketId
        /\ \E m \in database.Miner : m.minerId = r.minerId}

CredibilityOf(database, minerId) ==
    (CHOOSE m \in database.Miner : m.minerId = minerId).credibility

\* SUM(contentSizeBytes * credibility) over rows in order.
RECURSIVE SumAdjusted(_, _, _)
SumAdjusted(database, rows, acc) ==
    IF rows = <<>> THEN acc
    ELSE SumAdjusted(database, Tail(rows),
             DAdd(acc, DMulInt(Head(rows).contentSizeBytes,
                               CredibilityOf(database, Head(rows).minerId))))

\* Deviation from TempAgg: the total counts the first record of the group only.
TotalOfFirstRecord(database, source, labelId, timeBucketId) ==
    LET rows == GroupRows(database, source, labelId, timeBucketId)
    IN  IF rows = {} THEN SqlNull
        ELSE SumAdjusted(database, <<Head(RowsInOrder(rows))>>, DZero)

\* TempAgg.totalAdjContentSizeBytes as the LEFT JOIN gives it: NULL without a group.
TotalAdjContentSizeBytes(database, source, labelId, timeBucketId) ==
    LET rows == GroupRows(database, source, labelId, timeBucketId)
    IN  IF rows = {} THEN SqlNull
        ELSE SumAdjusted(database, RowsInOrder(rows), DZero)

\* Deviation from the scoring expression: the numerator without the miner's
\* credibility.
ScorableBytesUnweighted(contentSizeBytes, credibility, total) ==
    IF total = SqlNull THEN SqlNull
    ELSE IF DIsZero(total) THEN SqlNull
    ELSE DDiv(DMulInt(contentSizeBytes, DFromInt(contentSizeBytes)), total)

\* contentSizeBytes * (contentSizeBytes * ?) / totalAdjContentSizeBytes; SQLite
\* gives NULL for a NULL operand and for a division by zero.
ScorableBytes(contentSizeBytes, credibility, total) ==
    IF total = SqlNull THEN SqlNull
    ELSE IF DIsZero(total) THEN SqlNull
    ELSE DDiv(DMulInt(contentSizeBytes, DMulInt(contentSizeBytes, credibility)), total)

\* Deviation from _process_read_results: int(row[3]), which raises on None.
IntUnguarded(v) ==
    IF v = SqlNull THEN [raises |-> TRUE, value |-> 0]
    ELSE [raises |-> FALSE, value |-> DTrunc(v)]

\* int(row[3] if row[3] else 0)
IntOrZero(v) ==
    IF v = SqlNull THEN [raises |-> FALSE, value |-> 0]
    ELSE [raises |-> FALSE, value |-> DTrunc(v)]

\* The ScorableDataEntityBucket _process_read_results builds from one row.
ScorableDataEntityBucket(database, d, source, row, credibility) ==
    LET label_value == GetById(d, row.labelId)
        scorable    == IntOrZero(ScorableBytes(row.contentSizeBytes, credibility,
                           TotalAdjContentSizeBytes(database, source, row.labelId,
                                                    row.timeBucketId)))
    IN  [time_bucket_id |-> row.timeBucketId,
         source         |-> source,
         label          |-> IF label_value # "NULL" THEN label_value ELSE None,
         size_bytes     |-> row.contentSizeBytes,
         scorable_bytes |-> scorable.value,
         raises         |-> scorable.raises]

\* The scored buckets of one source for a miner.
ProcessReadResults(database, d, source, miner) ==
    LET rows == RowsInOrder({r \in TableOf(database, source) : r.minerId = miner.minerId})
    IN  [i \in 1..Len(rows) |->
            ScorableDataEntityBucket(database, d, source, rows[i], miner.credibility)]

NoneResult == [kind |-> "None"]

\* read_miner_index
ReadMinerIndex(database, d, miner_hotkey) ==
    LET result == MinerRows(database, miner_hotkey)
    IN  IF result = {} THEN NoneResult
        ELSE LET miner   == CHOOSE r \in result : TRUE
                 buckets == ProcessReadResults(database, d, REDDIT, miner)
                            \o ProcessReadResults(database, d, X, miner)
             IN  IF \E i \in 1..Len(buckets) : buckets[i].raises
                 THEN [kind |-> "TypeError"]
                 ELSE [kind |-> "ScorableMinerIndex",
                       scorable_data_entity_buckets |->
                           [i \in 1..Len(buckets) |->
                               [time_bucket_id |-> buckets[i].time_bucket_id,
                                source         |-> buckets[i].source,
                                label          |-> buckets[i].label,
                                size_bytes     |-> buckets[i].size_bytes,
                                scorable_bytes |-> buckets[i].scorable_bytes]],
                       last_updated |-> miner.lastUpdated]

\* read_miner_last_updated
ReadMinerLastUpdated(database, miner_hotkey) ==
    LET result == MinerRows(database, miner_hotkey)
    IN  IF result # {}
        THEN [kind |-> "datetime", last_updated |-> (CHOOSE r \in result : TRUE).lastUpdated]
        ELSE NoneResult

(***************************************************************************)
(* Spec: the public operations called one after the other.                 *)
(***************************************************************************)
VARIABLES
    db,          \* the shared in-memory SQLite database
    label_dict,  \* self.label_dict
    now,         \* the clock dt.datetime.utcnow() reads
    ret,         \* the last call made and what it returned
    submitted,   \* the hotkeys upserted and not deleted since
    before,      \* history: the call before the last upsert or delete, and
                 \* the store when that call began
    lock,        \* the thread holding self.lock, or NoThread
    pc,          \* where each thread is in its call
    call,        \* the call each thread is making
    frame        \* the local variables of each thread's call

vars == <<db, label_dict, now, ret, submitted, before, lock, pc, call, frame>>

Threads == {"t1", "t2"}

NoThread == "<nobody>"

NoCall == [op |-> "none"]

NoFrame == [miner_id |-> 0]

threadVars == <<lock, pc, call, frame>>

NoBefore == [call |-> NoCall, db |-> EmptyDb, label_dict |-> EmptyDict]

Init ==
    /\ db = EmptyDb
    /\ label_dict = EmptyDict
    /\ now = 0
    /\ ret = [call |-> NoCall, value |-> NoneResult]
    /\ submitted = {}
    /\ before = NoBefore
    /\ lock = NoThread
    /\ pc = [t \in Threads |-> "idle"]
    /\ call = [t \in Threads |-> NoCall]
    /\ frame = [t \in Threads |-> NoFrame]

UpsertCall(hotkey, credibility, index) ==
    [op |-> "upsert_compressed_miner_index", hotkey |-> hotkey,
     credibility |-> credibility, index |-> index]

\* upsert_compressed_miner_index(index, hotkey, credibility)
UpsertCompressedMinerIndex(hotkey, credibility, index) ==
    /\ now < MaxTime
    /\ LET now_str  == now + 1
           withRow  == UpsertMiner(db, hotkey, now_str, credibility)
           miner_id == UpsertMinerId(withRow, hotkey)
           parsed   == ParseIndex(label_dict, index, miner_id)
       IN  /\ now' = now_str
           /\ label_dict' = parsed.label_dict
           /\ db' = ReplaceMinerIndex(withRow, hotkey, parsed.reddit_values,
                                      parsed.twitter_values)
    /\ ret' = [call |-> UpsertCall(hotkey, credibility, index), value |-> NoneResult]
    /\ submitted' = submitted \cup {hotkey}
    /\ before' = [call |-> ret.call, db |-> db, label_dict |-> label_dict]
    /\ UNCHANGED threadVars

\* delete_miner(hotkey)
DeleteMinerCall(hotkey) ==
    /\ db' = DeleteMiner(db, hotkey)
    /\ ret' = [call |-> [op |-> "delete_miner", hotkey |-> hotkey], value |-> NoneResult]
    /\ submitted' = submitted \ {hotkey}
    /\ before' = [call |-> ret.call, db |-> db, label_dict |-> label_dict]
    /\ UNCHANGED <<label_dict, now, threadVars>>

\* read_miner_index(miner_hotkey)
ReadMinerIndexCall(hotkey) ==
    /\ ret' = [call  |-> [op |-> "read_miner_index", hotkey |-> hotkey],
               value |-> ReadMinerIndex(db, label_dict, hotkey)]
    /\ before' = NoBefore
    /\ UNCHANGED <<db, label_dict, now, submitted, threadVars>>

\* read_miner_last_updated(miner_hotkey)
ReadMinerLastUpdatedCall(hotkey) ==
    /\ ret' = [call  |-> [op |-> "read_miner_last_updated", hotkey |-> hotkey],
               value |-> ReadMinerLastUpdated(db, hotkey)]
    /\ before' = NoBefore
    /\ UNCHANGED <<db, label_dict, now, submitted, threadVars>>

Next ==
    \/ \E h \in Hotkeys, c \in Credibilities, i \in Indexes :
           UpsertCompressedMinerIndex(h, c, i)
    \/ \E h \in Hotkeys : DeleteMinerCall(h)
    \/ \E h \in Hotkeys : ReadMinerIndexCall(h)
    \/ \E h \in Hotkeys : ReadMinerLastUpdatedCall(h)

Spec == Init /\ [][Next]_vars

(***************************************************************************)
(* Properties of the serial specification.                                 *)
(***************************************************************************)
\* What the last call returned, when it was read_miner_index of a known miner.
IsIndexRead == ret.call.op = "read_miner_index" /\ ret.value.kind = "ScorableMinerIndex"

ReadBuckets == ret.value.scorable_data_entity_buckets

\* The key the interner holds for a returned label.
StoredLabel(label) == IF label = None THEN "NULL" ELSE label

\* The bucket records stored for a (source, label, timeBucket) key.
Holders(source, label, timeBucketId) ==
    {r \in TableOf(db, source) :
        /\ GetById(label_dict, r.labelId) = StoredLabel(label)
        /\ r.timeBucketId = timeBucketId}

HolderOf(hotkey, source, label, timeBucketId) ==
    {r \in Holders(source, label, timeBucketId) :
        \E m \in MinerRows(db, hotkey) : m.minerId = r.minerId}

\* The credibility-weighted total the scoring query computes for a returned bucket.
BucketTotal(b) ==
    TotalAdjContentSizeBytes(db, b.source, label_dict.indexes[StoredLabel(b.label)],
                             b.time_bucket_id)

ReaderCredibility == (CHOOSE m \in MinerRows(db, ret.call.hotkey) : TRUE).credibility

\* C4: a bucket whose key is held by exactly one miner, of credibility above
\* 0, is returned by read_miner_index with scorable_bytes = size_bytes.
C4_SoleClaimantScoresFullSize ==
    IsIndexRead =>
        \A i \in 1..Len(ReadBuckets) :
            LET b == ReadBuckets[i]
            IN  (/\ Cardinality(Holders(b.source, b.label, b.time_bucket_id)) = 1
                 /\ ~DIsZero(ReaderCredibility))
                => b.scorable_bytes = b.size_bytes

\* C5: every bucket read_miner_index returns has scorable_bytes <= size_bytes.
C5_ScorableAtMostSize ==
    IsIndexRead =>
        \A i \in 1..Len(ReadBuckets) :
            ReadBuckets[i].scorable_bytes <= ReadBuckets[i].size_bytes

\* C5 witness: a read returned a bucket discounted below its size beside one at full size.
C5_Witness ==
    /\ IsIndexRead
    /\ \E i, j \in 1..Len(ReadBuckets) :
          /\ 0 < ReadBuckets[i].scorable_bytes
          /\ ReadBuckets[i].scorable_bytes < ReadBuckets[i].size_bytes
          /\ ReadBuckets[j].scorable_bytes = ReadBuckets[j].size_bytes
          /\ ReadBuckets[j].size_bytes > 0

\* The scorable bytes read_miner_index gives a miner for its record r of a source.
ScorableOfRow(source, r) ==
    LET miner == CHOOSE m \in db.Miner : m.minerId = r.minerId
        index == ReadMinerIndex(db, label_dict, miner.hotkey)
        label == GetById(label_dict, r.labelId)
        i     == CHOOSE k \in 1..Len(index.scorable_data_entity_buckets) :
                     LET b == index.scorable_data_entity_buckets[k]
                     IN  /\ b.source = source
                         /\ StoredLabel(b.label) = label
                         /\ b.time_bucket_id = r.timeBucketId
    IN  index.scorable_data_entity_buckets[i].scorable_bytes

RECURSIVE SumScorable(_, _)
SumScorable(source, rows) ==
    IF rows = {} THEN 0
    ELSE LET r == CHOOSE v \in rows : TRUE
         IN  ScorableOfRow(source, r) + SumScorable(source, rows \ {r})

MaxSize(rows) ==
    CHOOSE n \in {r.contentSizeBytes : r \in rows} :
        \A r \in rows : r.contentSizeBytes <= n

\* The records that share a stored record's key.
SameKey(source, r) ==
    {v \in TableOf(db, source) : v.labelId = r.labelId /\ v.timeBucketId = r.timeBucketId}

\* C6: for every key, the scorable bytes of the miners holding it, each read in
\* the same store state, sum to at most the largest size claimed for the key.
C6_SumScorableAtMostMaxSize ==
    \A source \in Sources : \A r \in TableOf(db, source) :
        SumScorable(source, SameKey(source, r)) <= MaxSize(SameKey(source, r))

\* C6 witness: a key held by two miners with different sizes, read by one of
\* them, whose scorable bytes sum to a positive number.
C6_Witness ==
    /\ IsIndexRead
    /\ \E source \in Sources : \E r \in TableOf(db, source) :
          /\ Cardinality(SameKey(source, r)) = 2
          /\ \E v \in SameKey(source, r) : v.contentSizeBytes # r.contentSizeBytes
          /\ SumScorable(source, SameKey(source, r)) > 0
          /\ \E m \in MinerRows(db, ret.call.hotkey) : m.minerId = r.minerId

\* C7: when the weighted total of a bucket's key is 0, read_miner_index
\* returns an index, not a fault, and the bucket's scorable_bytes is 0.
C7_ZeroTotalScoresZero ==
    (ret.call.op = "read_miner_index" /\ ret.value # NoneResult) =>
        /\ ret.value.kind = "ScorableMinerIndex"
        /\ \A i \in 1..Len(ReadBuckets) :
              DIsZero(BucketTotal(ReadBuckets[i])) => ReadBuckets[i].scorable_bytes = 0

\* C7 witness: a read returned a bucket of positive size whose key's total is
\* 0 (its only holder has credibility 0), scored 0.
C7_Witness ==
    /\ IsIndexRead
    /\ \E i \in 1..Len(ReadBuckets) :
          /\ ReadBuckets[i].size_bytes > 0
          /\ DIsZero(BucketTotal(ReadBuckets[i]))
          /\ ReadBuckets[i].scorable_bytes = 0

(***************************************************************************)
(* What an index asks the store to hold, stated over the positions of the  *)
(* submitted lists.                                                        *)
(***************************************************************************)
\* The positions <<bucket, pair>> of one source of an index: the pairs of a
\* bucket are those both of its lists have.
IndexPositions(index, source) ==
    UNION {{<<b, i>> : i \in {k \in 1..Len(index[source][b].time_bucket_ids) :
                                 k <= Len(index[source][b].sizes_bytes)}} :
           b \in 1..Len(index[source])}

PositionBefore(p, q) == p[1] < q[1] \/ (p[1] = q[1] /\ p[2] < q[2])

\* The label a bucket is returned under: lower case, None without a label.
FoldedLabel(label) == IF label = "A" THEN "a" ELSE label

PositionLabel(index, source, p) == index[source][p[1]].label

PositionKey(index, source, p) ==
    [source         |-> source,
     label          |-> FoldedLabel(PositionLabel(index, source, p)),
     time_bucket_id |-> index[source][p[1]].time_bucket_ids[p[2]]]

\* The positions whose label can be interned.
Internable(index, source) ==
    {p \in IndexPositions(index, source) : PositionLabel(index, source, p) # BadLabel}

\* The keys an index submits.
SubmittedKeys(index) ==
    UNION {{PositionKey(index, source, p) : p \in Internable(index, source)} :
           source \in Sources}

\* One bucket for each key, with the size of the key's first position.
ExpectedBuckets(index) ==
    UNION {{[source         |-> source,
             label          |-> PositionKey(index, source, p).label,
             time_bucket_id |-> PositionKey(index, source, p).time_bucket_id,
             size_bytes     |-> index[source][p[1]].sizes_bytes[p[2]]] :
            p \in {q \in Internable(index, source) :
                      \A o \in Internable(index, source) :
                          PositionBefore(o, q) =>
                              PositionKey(index, source, o) # PositionKey(index, source, q)}} :
           source \in Sources}

BucketKey(b) == [source |-> b.source, label |-> b.label, time_bucket_id |-> b.time_bucket_id]

WithoutScore(b) ==
    [source |-> b.source, label |-> b.label, time_bucket_id |-> b.time_bucket_id,
     size_bytes |-> b.size_bytes]

BucketsOf(result) ==
    IF result.kind = "ScorableMinerIndex" THEN result.scorable_data_entity_buckets ELSE <<>>

KeysOf(result) == {BucketKey(BucketsOf(result)[i]) : i \in 1..Len(BucketsOf(result))}

\* The last call was an upsert, and what read_miner_index gives for its hotkey now.
IsUpsert == ret.call.op = "upsert_compressed_miner_index"

ReadAfterUpsert == ReadMinerIndex(db, label_dict, ret.call.hotkey)

\* What read_miner_index gave for the hotkey when the last upsert began.
ReadBeforeUpsert == ReadMinerIndex(before.db, before.label_dict, ret.call.hotkey)

\* C2: once upsert_compressed_miner_index(I, h, c) has returned,
\* read_miner_index(h) holds no bucket whose key I does not submit, so none of
\* an earlier index of h that is absent from I.
C2_NoStaleBuckets ==
    IsUpsert => KeysOf(ReadAfterUpsert) \subseteq SubmittedKeys(ret.call.index)

\* C2 witness: the upsert replaced an index of h that held a bucket, in each
\* source, whose key the new index does not submit.
C2_Witness ==
    /\ IsUpsert
    /\ \A source \in Sources :
          \E k \in KeysOf(ReadBeforeUpsert) :
              k.source = source /\ k \notin SubmittedKeys(ret.call.index)
    /\ KeysOf(ReadAfterUpsert) # {}

\* The last call repeated the upsert made just before it.
IsRepeatedUpsert == IsUpsert /\ before.call = ret.call

\* C8 as amended: after the same index is upserted twice in a row for a miner
\* with the same credibility, read_miner_index returns the bucket list it
\* returned after the first upsert, scorable bytes included, under the time
\* stamp of the second upsert.
C8_RepeatedUpsertSameBuckets ==
    IsRepeatedUpsert =>
        /\ BucketsOf(ReadAfterUpsert) = BucketsOf(ReadBeforeUpsert)
        /\ ReadAfterUpsert.kind = "ScorableMinerIndex"
        /\ ReadAfterUpsert.last_updated = now

\* C8 as stated: after the second of two identical upserts read_miner_index
\* returns the result it returned after the first.
C8_RepeatedUpsertSameResult ==
    IsRepeatedUpsert => ReadAfterUpsert = ReadBeforeUpsert

\* C8 witness: an index with scored buckets in both sources, one key submitted
\* more than once, upserted twice in a row.
C8_Witness ==
    /\ IsRepeatedUpsert
    /\ \A source \in Sources :
          \E i \in 1..Len(BucketsOf(ReadAfterUpsert)) :
              LET b == BucketsOf(ReadAfterUpsert)[i]
              IN  b.source = source /\ 0 < b.scorable_bytes
    /\ Cardinality(IndexPositions(ret.call.index, REDDIT))
           > Len(ProcessReadResults(db, label_dict, REDDIT,
                                    CHOOSE m \in MinerRows(db, ret.call.hotkey) : TRUE))

\* C9: right after upsert_compressed_miner_index(I, h, c) returns,
\* read_miner_index(h) holds exactly one bucket for each distinct (source,
\* lower-cased label or None, time bucket) that I submits with a label that can
\* be interned, each with that source, label, time bucket and the size first
\* submitted for it, and holds nothing else.
C9_ReadReturnsSubmittedBuckets ==
    IsUpsert =>
        /\ ReadAfterUpsert.kind = "ScorableMinerIndex"
        /\ {WithoutScore(BucketsOf(ReadAfterUpsert)[i]) :
               i \in 1..Len(BucketsOf(ReadAfterUpsert))} = ExpectedBuckets(ret.call.index)
        /\ Len(BucketsOf(ReadAfterUpsert)) = Cardinality(ExpectedBuckets(ret.call.index))

\* C9 witness: the index upserted names one key three times, in two letter
\* cases, beside a bucket without a label, and the read holds two buckets.
C9_Witness ==
    /\ IsUpsert
    /\ Cardinality(IndexPositions(ret.call.index, REDDIT)) = 3
    /\ Cardinality(SubmittedKeys(ret.call.index)) = 2
    /\ Len(BucketsOf(ReadAfterUpsert)) = 2
    /\ \E i \in 1..2 : BucketsOf(ReadAfterUpsert)[i].label = None

IsRead == ret.call.op \in {"read_miner_index", "read_miner_last_updated"}

\* C10: read_miner_index(h) and read_miner_last_updated(h) return None exactly
\* when h has no Miner row, which is exactly when h was never upserted or was
\* deleted since its last upsert; otherwise they return an index (its bucket
\* list empty when h has no buckets) and a time stamp, and never raise.
C10_NoneIffUnknownMiner ==
    /\ \A h \in Hotkeys : (MinerRows(db, h) = {}) <=> (h \notin submitted)
    /\ IsRead =>
          /\ (ret.value = NoneResult) <=> (ret.call.hotkey \notin submitted)
          /\ ret.call.hotkey \in submitted =>
                ret.value.kind = (IF ret.call.op = "read_miner_index"
                                  THEN "ScorableMinerIndex" ELSE "datetime")

\* C10 witness: read_miner_index of a known miner without buckets returned an
\* index with an empty bucket list, while the other miner, deleted after an
\* upsert, is unknown.
C10_Witness ==
    /\ IsIndexRead
    /\ ReadBuckets = <<>>
    /\ \E h \in Hotkeys : h \notin submitted /\ h # ret.call.hotkey
    /\ now = MaxTime

(***************************************************************************)
(* ConcSpec: the public operations called from several threads.  A thread  *)
(* takes one step per critical section of self.lock and, outside the lock, *)
(* one step per access to self.label_dict.                                 *)
(***************************************************************************)
\* The calls the threads make.
ConcIndexes == {IndexRepeatedKey, IndexBadLabel}

ConcCredibilities == {Credibility03, Credibility1}

\* The entries of both sources in loop order, each with its source.
SourceTagged(index, source) ==
    [i \in 1..Len(SourceEntries(index[source])) |->
        [source         |-> source,
         label          |-> SourceEntries(index[source])[i].label,
         time_bucket_id |-> SourceEntries(index[source])[i].time_bucket_id,
         size_bytes     |-> SourceEntries(index[source])[i].size_bytes]]

AllEntries(index) == SourceTagged(index, REDDIT) \o SourceTagged(index, X)

\* The program points at which a thread waits for self.lock, and the critical
\* section each leads to.
LockPcs ==
    {"_upsert_miner:lock", "replace:lock", "read_miner_index:lock",
     "read_miner_last_updated:lock", "delete_miner:lock"}

SectionOf(p) ==
    CASE p = "_upsert_miner:lock" -> "_upsert_miner"
      [] p = "replace:lock" -> "replace"
      [] p = "read_miner_index:lock" -> "read_miner_index"
      [] p = "read_miner_last_updated:lock" -> "read_miner_last_updated"
      [] p = "delete_miner:lock" -> "delete_miner"

\* A call returns: the thread is idle again.
Return(t, value) ==
    /\ ret' = [call |-> call[t], value |-> value]
    /\ pc' = [pc EXCEPT ![t] = "idle"]
    /\ call' = [call EXCEPT ![t] = NoCall]
    /\ frame' = [frame EXCEPT ![t] = NoFrame]

\* upsert_compressed_miner_index is called and reads the clock.
BeginUpsert(t, hotkey, credibility, index) ==
    /\ pc[t] = "idle"
    /\ now < MaxTime
    /\ now' = now + 1
    /\ call' = [call EXCEPT ![t] = UpsertCall(hotkey, credibility, index)]
    /\ frame' = [frame EXCEPT ![t] = [now_str        |-> now + 1,
                                      miner_id       |-> 0,
                                      entries        |-> AllEntries(index),
                                      key            |-> "NULL",
                                      reddit_values  |-> <<>>,
                                      twitter_values |-> <<>>]]
    /\ pc' = [pc EXCEPT ![t] = "_upsert_miner:lock"]
    /\ UNCHANGED <<db, label_dict, ret, submitted, before, lock>>

\* read_miner_index, read_miner_last_updated or delete_miner is called.
BeginCall(t, op, hotkey) ==
    /\ pc[t] = "idle"
    /\ call' = [call EXCEPT ![t] = [op |-> op, hotkey |-> hotkey]]
    /\ pc' = [pc EXCEPT ![t] = op \o ":lock"]
    /\ UNCHANGED <<db, label_dict, now, ret, submitted, before, lock, frame>>

\* with self.lock: the thread enters when no thread holds the lock.
AcquireLock(t) ==
    /\ pc[t] \in LockPcs
    /\ lock = NoThread
    /\ lock' = t
    /\ pc' = [pc EXCEPT ![t] = SectionOf(pc[t])]
    /\ UNCHANGED <<db, label_dict, now, ret, submitted, before, call, frame>>

\* The critical section of _upsert_miner.
UpsertMinerSection(t) ==
    /\ pc[t] = "_upsert_miner"
    /\ db' = UpsertMiner(db, call[t].hotkey, frame[t].now_str, call[t].credibility)
    /\ frame' = [frame EXCEPT ![t].miner_id = UpsertMinerId(db', call[t].hotkey)]
    /\ lock' = NoThread
    /\ pc' = [pc EXCEPT ![t] = "parse"]
    /\ UNCHANGED <<label_dict, now, ret, submitted, before, call>>

\* The parse loop moves to its next entry: the loop ends, the label raises, or
\* get_or_insert tests `key not in self.indexes`.
ParseNext(t) ==
    /\ pc[t] = "parse"
    /\ IF frame[t].entries = <<>>
       THEN /\ pc' = [pc EXCEPT ![t] = "replace:lock"]
            /\ UNCHANGED frame
       ELSE IF LabelRaises(Head(frame[t].entries).label)
       THEN /\ frame' = [frame EXCEPT ![t].entries = Tail(@)]
            /\ UNCHANGED pc
       ELSE LET key == LabelValueParseStr(Head(frame[t].entries).label)
            IN  /\ frame' = [frame EXCEPT ![t].key = key]
                /\ pc' = [pc EXCEPT ![t] = IF key \in DOMAIN label_dict.indexes
                                           THEN "return" ELSE "append"]
    /\ UNCHANGED <<db, label_dict, now, ret, submitted, before, lock, call>>

\* get_or_insert takes a slot for the key: a freed one, or self.items.append(key).
ItemsAppend(t) ==
    /\ pc[t] = "append"
    /\ IF label_dict.available_ids # {}
       THEN /\ \E key_id \in label_dict.available_ids :
                  label_dict' =
                      [available_ids |-> label_dict.available_ids \ {key_id},
                       items   |-> [label_dict.items EXCEPT ![key_id + 1] = frame[t].key],
                       indexes |-> [k \in DOMAIN label_dict.indexes \cup {frame[t].key} |->
                                       IF k = frame[t].key THEN key_id
                                       ELSE label_dict.indexes[k]]]
            /\ pc' = [pc EXCEPT ![t] = "return"]
       ELSE /\ label_dict' = [label_dict EXCEPT !.items = Append(@, frame[t].key)]
            /\ pc' = [pc EXCEPT ![t] = "store"]
    /\ UNCHANGED <<db, now, ret, submitted, before, lock, call, frame>>

\* self.indexes[key] = len(self.items) - 1
IndexesStore(t) ==
    /\ pc[t] = "store"
    /\ label_dict' =
           [label_dict EXCEPT !.indexes =
               [k \in DOMAIN label_dict.indexes \cup {frame[t].key} |->
                   IF k = frame[t].key THEN Len(label_dict.items) - 1
                   ELSE label_dict.indexes[k]]]
    /\ pc' = [pc EXCEPT ![t] = "return"]
    /\ UNCHANGED <<db, now, ret, submitted, before, lock, call, frame>>

\* return self.indexes[key], and values.append of the row.
ValuesAppend(t) ==
    /\ pc[t] = "return"
    /\ LET entry == Head(frame[t].entries)
           row   == [minerId          |-> frame[t].miner_id,
                     labelId          |-> label_dict.indexes[frame[t].key],
                     timeBucketId     |-> entry.time_bucket_id,
                     contentSizeBytes |-> entry.size_bytes]
       IN  frame' = [frame EXCEPT
                        ![t].entries = Tail(@),
                        ![t].reddit_values = IF entry.source = REDDIT
                                             THEN Append(@, row) ELSE @,
                        ![t].twitter_values = IF entry.source = REDDIT
                                              THEN @ ELSE Append(@, row)]
    /\ pc' = [pc EXCEPT ![t] = "parse"]
    /\ UNCHANGED <<db, label_dict, now, ret, submitted, before, lock, call>>

\* The second critical section of upsert_compressed_miner_index, and its return.
ReplaceSection(t) ==
    /\ pc[t] = "replace"
    /\ db' = ReplaceMinerIndex(db, call[t].hotkey, frame[t].reddit_values,
                               frame[t].twitter_values)
    /\ lock' = NoThread
    /\ Return(t, NoneResult)
    /\ UNCHANGED <<label_dict, now, submitted, before>>

\* Deviation from read_miner_index: the early return for an unknown miner
\* leaves the lock held.
ReadMinerIndexSectionLeak(t) ==
    /\ pc[t] = "read_miner_index"
    /\ lock' = IF MinerRows(db, call[t].hotkey) = {} THEN lock ELSE NoThread
    /\ Return(t, ReadMinerIndex(db, label_dict, call[t].hotkey))
    /\ UNCHANGED <<db, label_dict, now, submitted, before>>

\* read_miner_index under the lock.
ReadMinerIndexSection(t) ==
    /\ pc[t] = "read_miner_index"
    /\ lock' = NoThread
    /\ Return(t, ReadMinerIndex(db, label_dict, call[t].hotkey))
    /\ UNCHANGED <<db, label_dict, now, submitted, before>>

\* read_miner_last_updated under the lock.
ReadMinerLastUpdatedSection(t) ==
    /\ pc[t] = "read_miner_last_updated"
    /\ lock' = NoThread
    /\ Return(t, ReadMinerLastUpdated(db, call[t].hotkey))
    /\ UNCHANGED <<db, label_dict, now, submitted, before>>

\* delete_miner under the lock.
DeleteMinerSection(t) ==
    /\ pc[t] = "delete_miner"
    /\ db' = DeleteMiner(db, call[t].hotkey)
    /\ lock' = NoThread
    /\ Return(t, NoneResult)
    /\ UNCHANGED <<label_dict, now, submitted, before>>

ConcNext ==
    \E t \in Threads :
        \/ \E h \in Hotkeys, c \in ConcCredibilities, i \in ConcIndexes :
               BeginUpsert(t, h, c, i)
        \/ \E h \in Hotkeys,
              op \in {"read_miner_index", "read_miner_last_updated", "delete_miner"} :
               BeginCall(t, op, h)
        \/ AcquireLock(t)
        \/ UpsertMinerSection(t)
        \/ ParseNext(t)
        \/ ItemsAppend(t)
        \/ IndexesStore(t)
        \/ ValuesAppend(t)
        \/ ReplaceSection(t)
        \/ ReadMinerIndexSection(t)
        \/ ReadMinerLastUpdatedSection(t)
        \/ DeleteMinerSection(t)

ConcSpec == Init /\ [][ConcNext]_vars

(***************************************************************************)
(* Properties of the concurrent specification.                             *)
(***************************************************************************)
\* The thread is inside upsert_compressed_miner_index for the hotkey.
Upserting(t, hotkey) ==
    call[t].op = "upsert_compressed_miner_index" /\ call[t].hotkey = hotkey

\* C1: a read_miner_index that returns the time stamp an upsert of the same
\* miner wrote returns with it the buckets of that upsert's index: a reader
\* that sees the new Miner row sees the new buckets, never the old ones.
C1_ReaderSeesWholeUpsert ==
    \A t \in Threads :
        (/\ IsIndexRead
         /\ Upserting(t, ret.call.hotkey)
         /\ ret.value.last_updated = frame[t].now_str)
        => {WithoutScore(ReadBuckets[i]) : i \in 1..Len(ReadBuckets)}
               = ExpectedBuckets(call[t].index)

\* The thread's next step reads or writes self.label_dict.
AccessesLabelDict(t) ==
    \/ pc[t] \in {"append", "store", "return"}
    \/ /\ pc[t] = "parse"
       /\ frame[t].entries # <<>>
       /\ ~LabelRaises(Head(frame[t].entries).label)
    \/ /\ pc[t] = "read_miner_index"
       /\ BucketsOf(ReadMinerIndex(db, label_dict, call[t].hotkey)) # <<>>

\* C3: a thread about to read or write the label interner holds the lock.
C3_LabelDictUnderLock ==
    \A t \in Threads : AccessesLabelDict(t) => lock = t

(***************************************************************************)
(* Further properties of the serial specification.                         *)
(***************************************************************************)
IsDelete == ret.call.op = "delete_miner"

\* The ids of the Miner rows the hotkey had when the last upsert or delete began.
IdsBefore(hotkey) == {m.minerId : m \in MinerRows(before.db, hotkey)}

\* The bucket records stored under a set of miner ids.
RecordsOf(database, ids) ==
    {r \in database.Reddit \cup database.Twitter : r.minerId \in ids}

\* C11: after delete_miner(h) returns, h has no Miner row and none of the
\* bucket records it had in either source, and read_miner_index(h) gives None;
\* when h had no Miner row the call returns without raising and the store is
\* the one it found.
C11_DeleteRemovesMiner ==
    IsDelete =>
        /\ ret.value = NoneResult
        /\ MinerRows(db, ret.call.hotkey) = {}
        /\ RecordsOf(db, IdsBefore(ret.call.hotkey)) = {}
        /\ ReadMinerIndex(db, label_dict, ret.call.hotkey) = NoneResult
        /\ MinerRows(before.db, ret.call.hotkey) = {} =>
              db = before.db /\ label_dict = before.label_dict

\* C11 witness: delete_miner returned for a miner that had records in both
\* sources when it was called.
C11_Witness ==
    /\ IsDelete
    /\ \E r \in before.db.Reddit : r.minerId \in IdsBefore(ret.call.hotkey)
    /\ \E r \in before.db.Twitter : r.minerId \in IdsBefore(ret.call.hotkey)

\* C11 witness of the other case: delete_miner of a hotkey deleted just before.
C11_RepeatedDelete ==
    /\ IsDelete
    /\ before.call = ret.call
    /\ db.Miner # {}

\* The index of the last upsert holds a bucket whose label cannot be interned.
SubmitsBadLabel ==
    \E source \in Sources : \E p \in IndexPositions(ret.call.index, source) :
        PositionLabel(ret.call.index, source, p) = BadLabel

\* C12: an upsert whose index holds a bucket with a label that cannot be
\* interned returns without raising, leaves the miner's row with the given
\* credibility and the time of the call, and stores every key the other
\* buckets submit; nothing is stored for the bucket that failed.
C12_BadLabelDropsOneBucket ==
    (IsUpsert /\ SubmitsBadLabel) =>
        /\ ret.value = NoneResult
        /\ \E m \in MinerRows(db, ret.call.hotkey) :
              m.credibility = ret.call.credibility /\ m.lastUpdated = now
        /\ SubmittedKeys(ret.call.index) \subseteq KeysOf(ReadAfterUpsert)
        /\ \A i \in 1..Len(BucketsOf(ReadAfterUpsert)) :
              BucketsOf(ReadAfterUpsert)[i].label # BadLabel
        /\ BadLabel \notin DOMAIN label_dict.indexes

\* C12 witness: such an upsert, for a miner known before with another
\* credibility, stored the bucket that follows the one that failed.
C12_Witness ==
    /\ IsUpsert
    /\ SubmitsBadLabel
    /\ \E m \in MinerRows(before.db, ret.call.hotkey) :
          m.credibility # ret.call.credibility
    /\ \E i \in 1..Len(BucketsOf(ReadAfterUpsert)) :
          BucketsOf(ReadAfterUpsert)[i].label = "b"

\* The Miner row of a hotkey that has one.
MinerRow(database, hotkey) == CHOOSE m \in MinerRows(database, hotkey) : TRUE

\* What the last upsert left in the Miner table: one row for its hotkey, with
\* the credibility given and the time of the call, under the id the hotkey had
\* when it had a row and under an unused id when it had none; the rows of the
\* other hotkeys as they were.
UpsertedInPlace ==
    LET hotkey == ret.call.hotkey
    IN  /\ Cardinality(MinerRows(db, hotkey)) = 1
        /\ MinerRow(db, hotkey).credibility = ret.call.credibility
        /\ MinerRow(db, hotkey).lastUpdated = now
        /\ IF MinerRows(before.db, hotkey) # {}
           THEN MinerRow(db, hotkey).minerId = MinerRow(before.db, hotkey).minerId
           ELSE \A m \in before.db.Miner : m.minerId # MinerRow(db, hotkey).minerId
        /\ db.Miner \ MinerRows(db, hotkey)
              = before.db.Miner \ MinerRows(before.db, hotkey)

\* C13: every hotkey has at most one Miner row; an upsert creates the row of a
\* hotkey that has none and otherwise updates it in place, under the same
\* minerId, to the credibility given and the time of the call; and a hotkey's
\* row goes away only in a delete_miner of that hotkey.
C13_OneMinerRowUpdatedInPlace ==
    /\ [](/\ \A h \in Hotkeys : Cardinality(MinerRows(db, h)) <= 1
          /\ IsUpsert => UpsertedInPlace)
    /\ [][\A h \in Hotkeys :
             (MinerRows(db, h) # {} /\ MinerRows(db', h) = {})
                 => ret'.call = [op |-> "delete_miner", hotkey |-> h]]_vars

\* C13 witness: an upsert updated the row of a known miner, giving it another
\* credibility and a later time under the id it had.
C13_Witness ==
    /\ IsUpsert
    /\ MinerRows(before.db, ret.call.hotkey) # {}
    /\ MinerRow(before.db, ret.call.hotkey).credibility # ret.call.credibility
    /\ MinerRow(before.db, ret.call.hotkey).lastUpdated < now
    /\ MinerRow(db, ret.call.hotkey).minerId = MinerRow(before.db, ret.call.hotkey).minerId

(***************************************************************************)
(* Further properties of the concurrent specification.                     *)
(***************************************************************************)
\* The label a stored record reads back under.
LabelOf(r) == GetById(label_dict, r.labelId)

\* C14: a miner has at most one bucket record for a (source, label, time
\* bucket): two records of one table under the same miner, the same label and
\* the same time bucket are one record.
C14_OneRecordPerKey ==
    \A source \in Sources : \A r, v \in TableOf(db, source) :
        (/\ r.minerId = v.minerId
         /\ LabelOf(r) = LabelOf(v)
         /\ r.timeBucketId = v.timeBucketId)
        => r = v

\* The key a stored record of a source reads back under.
RecordKey(source, r) ==
    [source         |-> source,
     label          |-> IF LabelOf(r) # "NULL" THEN LabelOf(r) ELSE None,
     time_bucket_id |-> r.timeBucketId]

\* C15: the labelId of every stored record is the id of a slot of the interner
\* that holds a label, and when an upsert returns, every record of its miner
\* resolves to the label it was submitted under: a key of the index upserted.
C15_LabelIdsResolve ==
    /\ \A source \in Sources : \A r \in TableOf(db, source) :
          /\ r.labelId + 1 \in DOMAIN label_dict.items
          /\ LabelOf(r) # FreeSlot
    /\ (IsUpsert /\ MinerRows(db, ret.call.hotkey) # {}) =>
          \A source \in Sources : \A r \in TableOf(db, source) :
              r.minerId = MinerRow(db, ret.call.hotkey).minerId
                  => RecordKey(source, r) \in SubmittedKeys(ret.call.index)

(***************************************************************************)
(* InternerSpec: an AutoIncrementDict of its own, its three methods called *)
(* one after the other.                                                    *)
(***************************************************************************)
InternerKeys == {"a", "b", "NULL"}

\* What a method of the interner returned.
IdResult(id) == [kind |-> "int", id |-> id]

KeyResult(key) == [kind |-> "key", key |-> key]

\* The largest number of keys that had an id at the same time, so far.
MostLive ==
    LET live == Cardinality(DOMAIN label_dict.indexes)
        most == IF "most_live" \in DOMAIN before THEN before.most_live ELSE 0
    IN  IF live > most THEN live ELSE most

\* The history kept across a call of the interner: the call before it, the
\* interner it found and the largest number of live keys up to it.
InternerBefore ==
    [call |-> ret.call, db |-> EmptyDb, label_dict |-> label_dict,
     most_live |-> MostLive]

\* get_or_insert(key); set.pop() takes any of the free ids.
GetOrInsertCall(key) ==
    /\ \E popped \in (IF label_dict.available_ids = {} THEN {0}
                      ELSE label_dict.available_ids) :
           label_dict' = GetOrInsertWith(label_dict, key, popped)
    /\ ret' = [call  |-> [op |-> "get_or_insert", key |-> key],
               value |-> IdResult(label_dict'.indexes[key])]
    /\ before' = InternerBefore
    /\ UNCHANGED <<db, now, submitted, threadVars>>

\* get_by_id(id) for an id within self.items.
GetByIdCall(id) ==
    /\ id + 1 \in DOMAIN label_dict.items
    /\ ret' = [call  |-> [op |-> "get_by_id", id |-> id],
               value |-> KeyResult(GetById(label_dict, id))]
    /\ before' = InternerBefore
    /\ UNCHANGED <<db, label_dict, now, submitted, threadVars>>

\* Deviation from delete_key: self.items[key_id] = None is left out, the slot
\* keeps the key.
DeleteKeyCallSlotKept(key) ==
    /\ label_dict' = [DeleteKey(label_dict, key) EXCEPT !.items = label_dict.items]
    /\ ret' = [call |-> [op |-> "delete_key", key |-> key], value |-> NoneResult]
    /\ before' = InternerBefore
    /\ UNCHANGED <<db, now, submitted, threadVars>>

\* delete_key(key)
DeleteKeyCall(key) ==
    /\ label_dict' = DeleteKey(label_dict, key)
    /\ ret' = [call |-> [op |-> "delete_key", key |-> key], value |-> NoneResult]
    /\ before' = InternerBefore
    /\ UNCHANGED <<db, now, submitted, threadVars>>

InternerNext ==
    \/ \E key \in InternerKeys : GetOrInsertCall(key)
    \/ \E id \in 0..Cardinality(InternerKeys) : GetByIdCall(id)
    \/ \E key \in InternerKeys : DeleteKeyCall(key)

InternerSpec == Init /\ [][InternerNext]_vars

\* The keys that have an id.
LiveKeys(d) == DOMAIN d.indexes

\* C16: get_or_insert(k) returns the id k has when k is live and leaves the
\* interner as it is, and otherwise gives k an id no live key has;
\* get_by_id of the id returned is k; a live key keeps its id through every
\* call but its own delete_key; and no two live keys have the same id.
C16_InternerContract ==
    /\ \A j, k \in LiveKeys(label_dict) :
          label_dict.indexes[j] = label_dict.indexes[k] => j = k
    /\ \A k \in LiveKeys(label_dict) : GetById(label_dict, label_dict.indexes[k]) = k
    /\ \A k \in LiveKeys(before.label_dict) :
          ret.call # [op |-> "delete_key", key |-> k]
              => /\ k \in LiveKeys(label_dict)
                 /\ label_dict.indexes[k] = before.label_dict.indexes[k]
    /\ ret.call.op = "get_or_insert" =>
          /\ ret.call.key \in LiveKeys(label_dict)
          /\ ret.value = IdResult(label_dict.indexes[ret.call.key])
          /\ GetById(label_dict, ret.value.id) = ret.call.key
          /\ ret.call.key \in LiveKeys(before.label_dict) => label_dict = before.label_dict
          /\ ret.call.key \notin LiveKeys(before.label_dict) =>
                \A k \in LiveKeys(before.label_dict) :
                    before.label_dict.indexes[k] # ret.value.id
    /\ ret.call.op = "delete_key" => ret.call.key \notin LiveKeys(label_dict)

\* C16 witness: get_or_insert gave a key that was not live the id a
\* delete_key had freed, while another key is live and another id is free.
C16_Witness ==
    /\ ret.call.op = "get_or_insert"
    /\ ret.call.key \notin LiveKeys(before.label_dict)
    /\ ret.value.id \in before.label_dict.available_ids
    /\ Cardinality(LiveKeys(label_dict)) = 2
    /\ label_dict.available_ids # {}

(***************************************************************************)
(* Concurrent upserts against the same upserts made one after the other.   *)
(***************************************************************************)
\* The store after upsert_compressed_miner_index(index, hotkey, credibility)
\* run alone on a store, the clock reading now_str.
UpsertResult(store, hotkey, credibility, index, now_str) ==
    LET withRow  == UpsertMiner(store.db, hotkey, now_str, credibility)
        miner_id == UpsertMinerId(withRow, hotkey)
        parsed   == ParseIndex(store.label_dict, index, miner_id)
    IN  [db         |-> ReplaceMinerIndex(withRow, hotkey, parsed.reddit_values,
                                          parsed.twitter_values),
         label_dict |-> parsed.label_dict]

\* What a store holds, ids and time stamps aside: the miners with their
\* credibility, every miner's records with the label each resolves to, and
\* whether records have the same labelId exactly when they resolve to the
\* same label.
StoreView(store) ==
    LET records == UNION {{<<source, r>> : r \in TableOf(store.db, source)} :
                          source \in Sources}
    IN  [miners  |-> {[hotkey |-> m.hotkey, credibility |-> m.credibility] :
                         m \in store.db.Miner},
         records |-> {[hotkey         |-> (CHOOSE m \in store.db.Miner :
                                              m.minerId = e[2].minerId).hotkey,
                       source         |-> e[1],
                       label          |-> GetById(store.label_dict, e[2].labelId),
                       time_bucket_id |-> e[2].timeBucketId,
                       size_bytes     |-> e[2].contentSizeBytes] : e \in records},
         one_id_per_label |->
             \A e, f \in records :
                 (GetById(store.label_dict, e[2].labelId)
                      = GetById(store.label_dict, f[2].labelId))
                 <=> (e[2].labelId = f[2].labelId)]

\* The views of the stores that two upserts, one for each of two miners,
\* leave when the second starts after the first has returned.
SerialViews(first, second) ==
    {StoreView(UpsertResult(UpsertResult([db |-> EmptyDb, label_dict |-> EmptyDict],
                                         first, c1, i1, 1),
                            second, c2, i2, 2)) :
        c1 \in ConcCredibilities, i1 \in ConcIndexes,
        c2 \in ConcCredibilities, i2 \in ConcIndexes}

\* Both of two upserts, one for each miner, have returned, and no record is
\* without its miner.
TwoMinersUpserted ==
    /\ \A t \in Threads : pc[t] = "idle"
    /\ now = 2
    /\ {m.hotkey : m \in db.Miner} = {"h1", "h2"}
    /\ {m.lastUpdated : m \in db.Miner} = {1, 2}
    /\ \A r \in db.Reddit \cup db.Twitter : \E m \in db.Miner : m.minerId = r.minerId

\* C17: when two concurrent upserts for two different miners have both
\* returned, the store holds what it holds after the same two upserts made one
\* after the other in one of the two orders: the same miner rows, the same
\* records under the same labels, and one id for every label.
C17_TwoMinersAsInSomeOrder ==
    TwoMinersUpserted =>
        StoreView([db |-> db, label_dict |-> label_dict])
            \in SerialViews("h1", "h2") \cup SerialViews("h2", "h1")

(***************************************************************************)
(* FairSpec: a finite set of concurrent calls under fair scheduling.  Each *)
(* thread makes at most one call, begun before any call has returned, and  *)
(* a thread that can take a step of its call takes it in the end.          *)
(***************************************************************************)
\* A step of the call a thread is in, other than the critical section of
\* read_miner_index.
CallStep(t) ==
    \/ AcquireLock(t)
    \/ UpsertMinerSection(t)
    \/ ParseNext(t)
    \/ ItemsAppend(t)
    \/ IndexesStore(t)
    \/ ValuesAppend(t)
    \/ ReplaceSection(t)
    \/ ReadMinerLastUpdatedSection(t)
    \/ DeleteMinerSection(t)

\* The critical section of read_miner_index as the scheduler sees it: the
\* thread is in the section and leaves it.  Of the steps of FairNext these are
\* the steps ReadMinerIndexSection(t) or its replacement, which are enabled
\* whenever the thread is in the section; the value returned plays no part.
ReadMinerIndexScheduled(t) ==
    /\ pc[t] = "read_miner_index"
    /\ pc' = [pc EXCEPT ![t] = "idle"]

\* A thread begins a call in this step.
BeginsCall == \E t \in Threads : pc[t] = "idle" /\ pc'[t] # "idle"

FairNext == ConcNext /\ (BeginsCall => ret.call = NoCall)

FairSpec ==
    /\ Init
    /\ [][FairNext]_vars
    /\ \A t \in Threads : WF_vars(CallStep(t)) /\ WF_pc(ReadMinerIndexScheduled(t))

\* C18: every call a thread is in returns in the end; a thread that is in no
\* call does not hold the lock, whatever path its call returned by; and while
\* a call is in progress some thread can take a step of its call.
C18_EveryCallReturns ==
    /\ \A t \in Threads : (pc[t] # "idle") ~> (pc[t] = "idle")
    /\ [](\A t \in Threads : pc[t] = "idle" => lock # t)
    /\ []((\E t \in Threads : pc[t] # "idle") =>
              \E t \in Threads : pc[t] = "read_miner_index" \/ ENABLED CallStep(t))

\* C18 witness: a thread holds the lock in read_miner_index of an unknown
\* miner, about to return early, while the other thread waits for the lock.
C18_Witness ==
    \E t, u \in Threads :
        /\ pc[t] = "read_miner_index"
        /\ lock = t
        /\ MinerRows(db, call[t].hotkey) = {}
        /\ pc[u] \in LockPcs

(***************************************************************************)
(* ValidatorSpec: are_entities_valid, whose implementation                  *)
(* (vali_utils/utils.py) is known here by its description and its tests.    *)
(* A datetime is a count of half hours of the day (12:01 is 24); an         *)
(* entity's content is its sequence of bytes; a reason is the failure class *)
(* its text contains.                                                       *)
(***************************************************************************)
MaxEntities == 2

Datetimes == {22, 24, 25, 26}

Contents == {<<1, 2, 3>>, <<1, 2, 3, 4, 5>>}

EntityLabels == {None, "label"}

DataEntity ==
    [datetime : Datetimes, source : Sources, label : EntityLabels,
     content : Contents, content_size_bytes : {3, 5}]

DataEntityBucket ==
    [time_bucket : {12}, source : Sources, label : EntityLabels, size_bytes : {6, 10}]

EntityLists == UNION {[1..n -> DataEntity] : n \in 0..MaxEntities}

\* TimeBucket.from_datetime: the hour the datetime falls in.
TimeBucketFromDatetime(datetime) == datetime \div 2

\* The window of a time bucket, first and last half hour included.
InTimeBucketWindow(datetime, time_bucket) ==
    /\ time_bucket * 2 <= datetime
    /\ datetime <= time_bucket * 2 + 1

RECURSIVE SumContentSizeBytes(_)
SumContentSizeBytes(entities) ==
    IF entities = <<>> THEN 0
    ELSE Head(entities).content_size_bytes + SumContentSizeBytes(Tail(entities))

Valid == ""

SizeNotAsExpected == "Size not as expected"

EntityLabel == "Entity label"

EntitySource == "Entity source"

EntityDatetime == "Entity datetime"

\* Deviation: a label or source mismatch is reported without its class.
EntityFailureUnclassified(entity, bucket) ==
    IF Len(entity.content) # entity.content_size_bytes THEN SizeNotAsExpected
    ELSE IF entity.label # bucket.label \/ entity.source # bucket.source
    THEN "Entity does not match"
    ELSE IF ~InTimeBucketWindow(entity.datetime, bucket.time_bucket) THEN EntityDatetime
    ELSE Valid

\* The failure of one entity against the bucket, if it has one.
EntityFailure(entity, bucket) ==
    IF Len(entity.content) # entity.content_size_bytes THEN SizeNotAsExpected
    ELSE IF entity.label # bucket.label THEN EntityLabel
    ELSE IF entity.source # bucket.source THEN EntitySource
    ELSE IF ~InTimeBucketWindow(entity.datetime, bucket.time_bucket) THEN EntityDatetime
    ELSE Valid

\* The entities are checked in the order supplied; the first failure is reported.
RECURSIVE FirstEntityFailure(_, _)
FirstEntityFailure(entities, bucket) ==
    IF entities = <<>> THEN Valid
    ELSE IF EntityFailure(Head(entities), bucket) # Valid
    THEN EntityFailure(Head(entities), bucket)
    ELSE FirstEntityFailure(Tail(entities), bucket)

\* Deviation: a batch whose sizes sum to exactly the bucket's size is rejected.
AreEntitiesValidStrict(entities, bucket) ==
    IF SumContentSizeBytes(entities) <= bucket.size_bytes
    THEN [raised |-> FALSE, valid |-> FALSE, reason |-> SizeNotAsExpected]
    ELSE [raised |-> FALSE,
          valid  |-> FirstEntityFailure(entities, bucket) = Valid,
          reason |-> FirstEntityFailure(entities, bucket)]

\* are_entities_valid(entities, data_entity_bucket) -> (bool, reason)
AreEntitiesValid(entities, bucket) ==
    IF SumContentSizeBytes(entities) < bucket.size_bytes
    THEN [raised |-> FALSE, valid |-> FALSE, reason |-> SizeNotAsExpected]
    ELSE [raised |-> FALSE,
          valid  |-> FirstEntityFailure(entities, bucket) = Valid,
          reason |-> FirstEntityFailure(entities, bucket)]

\* The bucket and the entities of the tests of are_entities_valid.
TestBucket == [time_bucket |-> 12, source |-> REDDIT, label |-> "label", size_bytes |-> 10]

TestEntity(datetime, source, label, content, content_size_bytes) ==
    [datetime |-> datetime, source |-> source, label |-> label,
     content |-> content, content_size_bytes |-> content_size_bytes]

TestCases ==
    {[name     |-> "Actual size doesn't match content size",
      entities |-> <<TestEntity(24, REDDIT, "label", <<1, 2, 3>>, 3),
                     TestEntity(24, REDDIT, "label", <<1, 2, 3>>, 200)>>,
      expected_error |-> SizeNotAsExpected],
     [name     |-> "Actual size less than bucket summary",
      entities |-> <<TestEntity(24, REDDIT, "label", <<1, 2, 3>>, 3),
                     TestEntity(24, REDDIT, "label", <<1, 2, 3>>, 3)>>,
      expected_error |-> SizeNotAsExpected],
     [name     |-> "Label doesn't match bucket summary",
      entities |-> <<TestEntity(24, REDDIT, None, <<1, 2, 3, 4, 5>>, 5),
                     TestEntity(24, REDDIT, "label", <<1, 2, 3, 4, 5>>, 5)>>,
      expected_error |-> EntityLabel],
     [name     |-> "DataSource doesn't match",
      entities |-> <<TestEntity(24, REDDIT, "label", <<1, 2, 3, 4, 5>>, 5),
                     TestEntity(24, X, "label", <<1, 2, 3, 4, 5>>, 5)>>,
      expected_error |-> EntitySource],
     [name     |-> "Datetime before time_bucket",
      entities |-> <<TestEntity(22, REDDIT, "label", <<1, 2, 3, 4, 5>>, 5),
                     TestEntity(24, REDDIT, "label", <<1, 2, 3, 4, 5>>, 5)>>,
      expected_error |-> EntityDatetime],
     [name     |-> "Datetime after time_bucket",
      entities |-> <<TestEntity(26, REDDIT, "label", <<1, 2, 3, 4, 5>>, 5),
                     TestEntity(24, REDDIT, "label", <<1, 2, 3, 4, 5>>, 5)>>,
      expected_error |-> EntityDatetime],
     [name     |-> "valid entities",
      entities |-> <<TestEntity(24, REDDIT, "label", <<1, 2, 3, 4, 5>>, 5),
                     TestEntity(24, REDDIT, "label", <<1, 2, 3, 4, 5>>, 5)>>,
      expected_error |-> Valid]}

Pending == [kind |-> "pending"]

ValidatorInit ==
    /\ db = EmptyDb
    /\ label_dict = EmptyDict
    /\ now = 0
    /\ \/ \E entities \in EntityLists, bucket \in DataEntityBucket :
              ret = [call  |-> [op |-> "are_entities_valid",
                                entities |-> entities, bucket |-> bucket],
                     value |-> Pending]
       \/ \E test \in TestCases :
              ret = [call  |-> [op |-> "are_entities_valid",
                                entities |-> test.entities, bucket |-> TestBucket],
                     value |-> Pending]
    /\ submitted = {}
    /\ before = NoBefore
    /\ lock = NoThread
    /\ pc = [t \in Threads |-> "idle"]
    /\ call = [t \in Threads |-> NoCall]
    /\ frame = [t \in Threads |-> NoFrame]

\* The call of are_entities_valid on the batch, one of the domain or of a test.
AreEntitiesValidCall ==
    /\ ret.value = Pending
    /\ ret' = [ret EXCEPT !.value = AreEntitiesValid(ret.call.entities, ret.call.bucket)]
    /\ UNCHANGED <<db, label_dict, now, submitted, before, threadVars>>

ValidatorNext == AreEntitiesValidCall

ValidatorSpec == ValidatorInit /\ [][ValidatorNext]_vars

IsValidation == ret.call.op = "are_entities_valid" /\ ret.value # Pending

Batch == {ret.call.entities[i] : i \in DOMAIN ret.call.entities}

SizeFails ==
    \/ SumContentSizeBytes(ret.call.entities) < ret.call.bucket.size_bytes
    \/ \E e \in Batch : Len(e.content) # e.content_size_bytes

LabelFails == \E e \in Batch : e.label # ret.call.bucket.label

SourceFails == \E e \in Batch : e.source # ret.call.bucket.source

DatetimeFails ==
    \E e \in Batch : TimeBucketFromDatetime(e.datetime) # ret.call.bucket.time_bucket

\* C19: are_entities_valid returns true exactly when the declared sizes sum to
\* at least the bucket's size, every content is as long as declared, and every
\* entity has the bucket's label, source and time bucket; the tests' batches
\* are accepted and rejected as the tests expect.
C19_ValidExactlyWhenBatchBacksBucket ==
    IsValidation =>
        /\ ret.value.valid <=>
               ~(SizeFails \/ LabelFails \/ SourceFails \/ DatetimeFails)
        /\ \A test \in TestCases :
               (ret.call.entities = test.entities /\ ret.call.bucket = TestBucket)
                   => (ret.value.valid <=> test.expected_error = Valid)

\* C19 witness: a batch whose declared sizes sum to exactly the bucket's size
\* is accepted.
C19_Witness ==
    /\ IsValidation
    /\ ret.value.valid
    /\ Len(ret.call.entities) = 2
    /\ SumContentSizeBytes(ret.call.entities) = ret.call.bucket.size_bytes

\* C20: a rejection is returned, not raised, with a reason of a class that
\* fails in the batch: the size class for a shortfall of the total or a
\* content of another length than declared, the label, the source or the
\* datetime class for such a mismatch; a batch failing in one class only is
\* reported in that class, and the tests' batches get the reasons the tests
\* expect.
C20_RejectionNamesFailureClass ==
    (IsValidation /\ ~ret.value.valid) =>
        /\ ~ret.value.raised
        /\ \/ ret.value.reason = SizeNotAsExpected /\ SizeFails
           \/ ret.value.reason = EntityLabel /\ LabelFails
           \/ ret.value.reason = EntitySource /\ SourceFails
           \/ ret.value.reason = EntityDatetime /\ DatetimeFails
        /\ \A test \in TestCases :
               (ret.call.entities = test.entities /\ ret.call.bucket = TestBucket)
                   => ret.value.reason = test.expected_error

\* C20 witness: a batch with an entity dated after the bucket's window, and no
\* other failure, is rejected.
C20_Witness ==
    /\ IsValidation
    /\ ~ret.value.valid
    /\ ~(SizeFails \/ LabelFails \/ SourceFails)
    /\ \E e \in Batch : TimeBucketFromDatetime(e.datetime) > ret.call.bucket.time_bucket

(***************************************************************************)
(* UniqueSpec: are_entities_unique (vali_utils/utils.py), known here by    *)
(* its description and its tests.  Of an entity only the uri and the       *)
(* content take part.                                                      *)
(***************************************************************************)
MaxUniqueBatch == 3

Uris == {"http://1", "http://2"}

UniqueContents == {<<1, 2, 3, 4, 5>>, <<6, 7, 8, 9, 0>>}

UriEntity == [uri : Uris, content : UniqueContents]

UniqueBatches == UNION {[1..n -> UriEntity] : n \in 0..MaxUniqueBatch}

\* The state in which a function of the validator utilities is about to be
\* called on one of the inputs.
UtilsInit(inputs) ==
    /\ db = EmptyDb
    /\ label_dict = EmptyDict
    /\ now = 0
    /\ \E input \in inputs : ret = [call |-> input, value |-> Pending]
    /\ submitted = {}
    /\ before = NoBefore
    /\ lock = NoThread
    /\ pc = [t \in Threads |-> "idle"]
    /\ call = [t \in Threads |-> NoCall]
    /\ frame = [t \in Threads |-> NoFrame]

\* Deviation: two entities count as duplicates as soon as their uris agree.
RECURSIVE AreEntitiesUniqueByUri(_, _)
AreEntitiesUniqueByUri(entities, seen) ==
    IF entities = <<>> THEN TRUE
    ELSE IF Head(entities).uri \in {e.uri : e \in seen} THEN FALSE
    ELSE AreEntitiesUniqueByUri(Tail(entities), seen \cup {Head(entities)})

\* The entities are gone through in order, each compared with those seen
\* before it: the same uri with the same content is a duplicate.
RECURSIVE AreEntitiesUniqueFrom(_, _)
AreEntitiesUniqueFrom(entities, seen) ==
    IF entities = <<>> THEN TRUE
    ELSE IF <<Head(entities).uri, Head(entities).content>> \in seen THEN FALSE
    ELSE AreEntitiesUniqueFrom(Tail(entities),
                               seen \cup {<<Head(entities).uri, Head(entities).content>>})

\* are_entities_unique(entities) -> bool
AreEntitiesUnique(entities) == AreEntitiesUniqueFrom(entities, {})

\* The batches of the tests of are_entities_unique.
UniqueTestCases ==
    {[entities |-> <<[uri |-> "http://1", content |-> <<1, 2, 3, 4, 5>>],
                     [uri |-> "http://2", content |-> <<6, 7, 8, 9, 0>>]>>,
      unique   |-> TRUE],
     [entities |-> <<[uri |-> "http://1", content |-> <<1, 2, 3, 4, 5>>],
                     [uri |-> "http://1", content |-> <<1, 2, 3, 4, 5>>]>>,
      unique   |-> FALSE]}

UniqueInit ==
    UtilsInit({[op |-> "are_entities_unique", entities |-> entities] :
                   entities \in UniqueBatches})

\* The call of are_entities_unique on the batch.
AreEntitiesUniqueCall ==
    /\ ret.call.op = "are_entities_unique"
    /\ ret.value = Pending
    /\ ret' = [ret EXCEPT !.value = [unique |-> AreEntitiesUnique(ret.call.entities)]]
    /\ UNCHANGED <<db, label_dict, now, submitted, before, threadVars>>

UniqueNext == AreEntitiesUniqueCall

UniqueSpec == UniqueInit /\ [][UniqueNext]_vars

IsUniqueCheck == ret.call.op = "are_entities_unique" /\ ret.value # Pending

\* Two entities of the batch, at different places, with the same uri and the
\* same content.
HasDuplicate ==
    \E i, j \in DOMAIN ret.call.entities :
        /\ i # j
        /\ ret.call.entities[i].uri = ret.call.entities[j].uri
        /\ ret.call.entities[i].content = ret.call.entities[j].content

\* C21: are_entities_unique returns true exactly when no two entities of the
\* batch have the same uri and the same content; in particular a batch whose
\* contents all differ is unique, and the tests' batches are judged as the
\* tests expect.
C21_UniqueIffNoDuplicate ==
    IsUniqueCheck =>
        /\ ret.value.unique <=> ~HasDuplicate
        /\ (\A i, j \in DOMAIN ret.call.entities :
                i # j => ret.call.entities[i].content # ret.call.entities[j].content)
               => ret.value.unique
        /\ \A test \in UniqueTestCases :
               ret.call.entities = test.entities => (ret.value.unique <=> test.unique)

\* C21 witness: a batch of three whose first and last entity are the same
\* uri and content is found not unique.
C21_Witness ==
    /\ IsUniqueCheck
    /\ ~ret.value.unique
    /\ Len(ret.call.entities) = 3
    /\ ret.call.entities[1] = ret.call.entities[3]
    /\ ret.call.entities[1] # ret.call.entities[2]

\* C21 second case: a batch with one uri twice, under different contents, is
\* found unique.
C21_SameUriOtherContent ==
    /\ IsUniqueCheck
    /\ ret.value.unique
    /\ \E i, j \in DOMAIN ret.call.entities :
           /\ ret.call.entities[i].uri = ret.call.entities[j].uri
           /\ ret.call.entities[i].content # ret.call.entities[j].content

(***************************************************************************)
(* SampleSpec: choose_entities_to_verify (vali_utils/utils.py), known here *)
(* by its description and its tests.  A random draw is a ticket below the  *)
(* sum of the weights; the pick is the place whose share of the tickets    *)
(* holds it.  Sizes are positive.                                          *)
(***************************************************************************)
MaxSampleBatch == 3

SampleEntities ==
    {[uri |-> "uri1", content_size_bytes |-> 100],
     [uri |-> "uri2", content_size_bytes |-> 200],
     [uri |-> "uri3", content_size_bytes |-> 300]}

SampleBatches == UNION {[1..n -> SampleEntities] : n \in 0..MaxSampleBatch}

RECURSIVE SumWeights(_)
SumWeights(weights) ==
    IF weights = <<>> THEN 0 ELSE Head(weights) + SumWeights(Tail(weights))

\* The place a ticket falls on: the first whose cumulative weight exceeds it.
RECURSIVE WeightedPick(_, _)
WeightedPick(weights, ticket) ==
    IF ticket < Head(weights) THEN 1
    ELSE 1 + WeightedPick(Tail(weights), ticket - Head(weights))

\* The list without the element at a place.
WithoutPlace(list, place) ==
    [i \in 1..(Len(list) - 1) |-> IF i < place THEN list[i] ELSE list[i + 1]]

ContentSizes(entities) == [i \in DOMAIN entities |-> entities[i].content_size_bytes]

\* Deviation: the second pick is drawn over the whole list again.
ChooseEntitiesWithReplacement(entities, first_ticket, second_ticket) ==
    IF entities = <<>> THEN <<>>
    ELSE IF Len(entities) = 1 THEN entities
    ELSE <<entities[WeightedPick(ContentSizes(entities), first_ticket)],
           entities[WeightedPick(ContentSizes(entities),
                                 second_ticket % SumWeights(ContentSizes(entities)))]>>

\* choose_entities_to_verify(entities), for the two draws it makes: the first
\* pick over the whole list, the second over the list without the first pick.
ChooseEntitiesToVerify(entities, first_ticket, second_ticket) ==
    IF entities = <<>> THEN <<>>
    ELSE IF Len(entities) = 1 THEN entities
    ELSE LET first     == WeightedPick(ContentSizes(entities), first_ticket)
             remaining == WithoutPlace(entities, first)
         IN  <<entities[first],
               remaining[WeightedPick(ContentSizes(remaining), second_ticket)]>>

\* The tickets of the second draw, after the first.
SecondTickets(entities, first_ticket) ==
    IF Len(entities) < 2 THEN {0}
    ELSE 0..(SumWeights(ContentSizes(
                 WithoutPlace(entities,
                              WeightedPick(ContentSizes(entities), first_ticket)))) - 1)

FirstTickets(entities) ==
    IF entities = <<>> THEN {0} ELSE 0..(SumWeights(ContentSizes(entities)) - 1)

SampleInit ==
    UtilsInit({[op |-> "choose_entities_to_verify", entities |-> entities] :
                   entities \in SampleBatches})

\* The call of choose_entities_to_verify on the batch.
ChooseEntitiesToVerifyCall ==
    /\ ret.call.op = "choose_entities_to_verify"
    /\ ret.value = Pending
    /\ \E first_ticket \in FirstTickets(ret.call.entities) :
           \E second_ticket \in SecondTickets(ret.call.entities, first_ticket) :
               ret' = [ret EXCEPT !.value =
                          [chosen |-> ChooseEntitiesToVerify(ret.call.entities,
                                                             first_ticket, second_ticket)]]
    /\ UNCHANGED <<db, label_dict, now, submitted, before, threadVars>>

SampleNext == ChooseEntitiesToVerifyCall

SampleSpec == SampleInit /\ [][SampleNext]_vars

IsSample == ret.call.op = "choose_entities_to_verify" /\ ret.value # Pending

\* C22: choose_entities_to_verify returns min(2, n) entities of the n given,
\* taken at pairwise different places of the input: one entity alone is
\* returned as it is, and of two or more the same one is never returned twice.
C22_ChoosesDistinctEntities ==
    IsSample =>
        LET entities == ret.call.entities
            chosen   == ret.value.chosen
        IN  /\ Len(chosen) = IF Len(entities) < 2 THEN Len(entities) ELSE 2
            /\ Len(entities) = 1 => chosen = entities
            /\ Len(entities) >= 2 =>
                   \E i, j \in DOMAIN entities :
                       i # j /\ chosen = <<entities[i], entities[j]>>
            /\ (\A i, j \in DOMAIN entities : i # j => entities[i] # entities[j])
                   => \A i, j \in DOMAIN chosen : i # j => chosen[i] # chosen[j]

\* C22 witness: of the tests' three entities of sizes 100, 200 and 300, the
\* third and then the first are chosen.
C22_Witness ==
    /\ IsSample
    /\ Len(ret.call.entities) = 3
    /\ ret.call.entities[1].uri = "uri1"
    /\ ret.call.entities[2].uri = "uri2"
    /\ ret.call.entities[3].uri = "uri3"
    /\ ret.value.chosen = <<ret.call.entities[3], ret.call.entities[1]>>

\* C22 second case: one entity alone is returned once.
C22_OneEntity ==
    /\ IsSample
    /\ Len(ret.call.entities) = 1
    /\ ret.value.chosen = ret.call.entities

(***************************************************************************)
(* ChooseSpec: choose_data_entity_bucket_to_query (vali_utils/utils.py),   *)
(* known here by its description and its test.  The random draw is a       *)
(* ticket below the sum of the weights, every ticket as likely as another, *)
(* so that the probability of a bucket is its share of the tickets.        *)
(***************************************************************************)
MaxIndexBuckets == 3

\* The sizes of a bucket of a read index: scorable_bytes is at most size_bytes.
BucketSizes ==
    {[size_bytes |-> 0,   scorable_bytes |-> 0],
     [size_bytes |-> 100, scorable_bytes |-> 0],
     [size_bytes |-> 100, scorable_bytes |-> 100],
     [size_bytes |-> 200, scorable_bytes |-> 200],
     [size_bytes |-> 300, scorable_bytes |-> 100],
     [size_bytes |-> 300, scorable_bytes |-> 300]}

\* An index of n buckets, the bucket at place i under the label i - 1.
ScorableIndexes ==
    UNION {{[i \in 1..n |-> [label          |-> i - 1,
                             size_bytes     |-> sizes[i].size_bytes,
                             scorable_bytes |-> sizes[i].scorable_bytes]] :
                sizes \in [1..n -> BucketSizes]} : n \in 1..MaxIndexBuckets}

ScorableBytesOf(index) == [i \in DOMAIN index |-> index[i].scorable_bytes]

SizeBytesOf(index) == [i \in DOMAIN index |-> index[i].size_bytes]

\* Deviation: the buckets are weighted by size_bytes whatever they score.
BucketWeightsBySize(index) ==
    IF SumWeights(SizeBytesOf(index)) > 0 THEN SizeBytesOf(index)
    ELSE [i \in DOMAIN index |-> 1]

\* The weights of the pick: scorable_bytes; size_bytes when every bucket
\* scores zero; one each when every size is zero too.
BucketWeights(index) ==
    IF SumWeights(ScorableBytesOf(index)) > 0 THEN ScorableBytesOf(index)
    ELSE IF SumWeights(SizeBytesOf(index)) > 0 THEN SizeBytesOf(index)
    ELSE [i \in DOMAIN index |-> 1]

BucketTickets(index) == 0..(SumWeights(BucketWeights(index)) - 1)

\* choose_data_entity_bucket_to_query(index), for the draw it makes.
ChooseBucketToQuery(index, ticket) ==
    LET bucket == index[WeightedPick(BucketWeights(index), ticket)]
    IN  [label |-> bucket.label, size_bytes |-> bucket.size_bytes]

\* The index of the test: scorable sizes 100, 200 and 300.
TestIndex ==
    <<[label |-> 0, size_bytes |-> 100, scorable_bytes |-> 100],
      [label |-> 1, size_bytes |-> 200, scorable_bytes |-> 200],
      [label |-> 2, size_bytes |-> 300, scorable_bytes |-> 300]>>

ChooseInit ==
    UtilsInit({[op |-> "choose_data_entity_bucket_to_query", index |-> index] :
                   index \in ScorableIndexes})

\* The call of choose_data_entity_bucket_to_query on the index.
ChooseBucketToQueryCall ==
    /\ ret.call.op = "choose_data_entity_bucket_to_query"
    /\ ret.value = Pending
    /\ \E ticket \in BucketTickets(ret.call.index) :
           ret' = [ret EXCEPT !.value =
                      [chosen |-> ChooseBucketToQuery(ret.call.index, ticket)]]
    /\ UNCHANGED <<db, label_dict, now, submitted, before, threadVars>>

ChooseNext == ChooseBucketToQueryCall

ChooseSpec == ChooseInit /\ [][ChooseNext]_vars

IsChoice == ret.call.op = "choose_data_entity_bucket_to_query" /\ ret.value # Pending

\* The number of draws that choose the bucket at a place of the index.
DrawsChoosing(index, place) ==
    Cardinality({ticket \in BucketTickets(index) :
                     ChooseBucketToQuery(index, ticket).label = index[place].label})

\* C23: the bucket chosen is a bucket of the index, and when some bucket
\* scores above zero each bucket is chosen by a share of the draws equal to
\* its share of the scorable bytes: one, two and three sixths of the draws for
\* scorable sizes 100, 200 and 300.
C23_ChosenInProportionToScorableBytes ==
    IsChoice =>
        LET index == ret.call.index
            total == SumWeights(ScorableBytesOf(index))
        IN  /\ \E i \in DOMAIN index :
                   ret.value.chosen = [label      |-> index[i].label,
                                       size_bytes |-> index[i].size_bytes]
            /\ total > 0 =>
                   \A i \in DOMAIN index :
                       DrawsChoosing(index, i) * total
                           = index[i].scorable_bytes * Cardinality(BucketTickets(index))
            /\ index = TestIndex =>
                   /\ DrawsChoosing(index, 1) * 6 = Cardinality(BucketTickets(index))
                   /\ DrawsChoosing(index, 2) * 3 = Cardinality(BucketTickets(index))
                   /\ DrawsChoosing(index, 3) * 2 = Cardinality(BucketTickets(index))

\* C23 witness: of the test's index the bucket of scorable size 200 is chosen.
C23_Witness ==
    /\ IsChoice
    /\ ret.call.index = TestIndex
    /\ ret.value.chosen.label = 1

\* C23 second case: a bucket that scores less than its size is chosen, next
\* to a bucket that scores its whole size.
C23_ScoredBelowSize ==
    /\ IsChoice
    /\ Len(ret.call.index) = 2
    /\ ret.call.index[1].scorable_bytes = 100
    /\ ret.call.index[1].size_bytes = 300
    /\ ret.call.index[2].scorable_bytes = 300
    /\ ret.value.chosen.label = 0

(***************************************************************************)
(* DataboxSpec: upserts and deletes, and the aggregation reads             *)
(* read_databox_miners, read_databox_age_sizes and read_databox_label_sizes.*)
(***************************************************************************)
\* The tables __init__ creates.
Tables(database) == DOMAIN database

\* Miner LEFT JOIN MinerIndex USING (minerId): every miner with each of its
\* rows, or with NULLs when it has none.
LeftJoinMinerIndex(database) ==
    UNION {{[miner |-> m, row |-> r] :
                r \in {v \in database.MinerIndex : v.minerId = m.minerId}} :
               m \in database.Miner}
    \cup {[miner |-> m, row |-> SqlNull] :
              m \in {v \in database.Miner :
                         \A r \in database.MinerIndex : r.minerId # v.minerId}}

\* SUM(contentSizeBytes) over joined rows.
RECURSIVE SumContentSizeBytesOf(_)
SumContentSizeBytesOf(joined) ==
    IF joined = {} THEN 0
    ELSE LET j == CHOOSE v \in joined : TRUE
         IN  j.row.contentSizeBytes + SumContentSizeBytesOf(joined \ {j})

OperationalError == [kind |-> "OperationalError"]

\* read_databox_miners: one DataBoxMiner per miner.
ReadDataboxMiners(database) ==
    IF "MinerIndex" \notin Tables(database) THEN OperationalError
    ELSE [kind |-> "DataBoxMiners",
          rows |-> {[hotkey       |-> m.hotkey,
                     credibility  |-> m.credibility,
                     bucket_count |->
                         Cardinality({j \in LeftJoinMinerIndex(database) : j.miner = m}),
                     content_size_bytes_reddit |->
                         SumContentSizeBytesOf({j \in LeftJoinMinerIndex(database) :
                             j.miner = m /\ j.row # SqlNull /\ j.row.source = REDDIT}),
                     content_size_bytes_twitter |->
                         SumContentSizeBytesOf({j \in LeftJoinMinerIndex(database) :
                             j.miner = m /\ j.row # SqlNull /\ j.row.source = X}),
                     last_updated |-> m.lastUpdated] : m \in database.Miner}]

\* The joined rows of a source (WHERE source = ?), which drops the miners
\* without rows.
JoinedOfSource(database, source) ==
    {j \in LeftJoinMinerIndex(database) : j.row # SqlNull /\ j.row.source = source}

\* int(SUM(contentSizeBytes * credibility)) of a group of joined rows.
AdjContentSizeBytes(database, group) ==
    DTrunc(SumAdjusted(database, RowsInOrder({j.row : j \in group}), DZero))

\* read_databox_age_sizes: the totals per time bucket, Reddit then X; the
\* rows of a source are given as a set, their order left out.
ReadDataboxAgeSizes(database) ==
    IF "MinerIndex" \notin Tables(database) THEN OperationalError
    ELSE [kind |-> "DataBoxAgeSizes",
          rows |-> {[source             |-> source,
                     time_bucket_id     |-> id,
                     content_size_bytes |->
                         SumContentSizeBytesOf({j \in JoinedOfSource(database, source) :
                                                    j.row.timeBucketId = id}),
                     adj_content_size_bytes |->
                         AdjContentSizeBytes(database,
                             {j \in JoinedOfSource(database, source) :
                                  j.row.timeBucketId = id})] :
                        source \in Sources,
                        id \in {r.timeBucketId : r \in database.MinerIndex}}]

\* read_databox_label_sizes: the totals per label, Reddit then X; the rows of
\* a source are given as a set, their order left out.
ReadDataboxLabelSizes(database, d) ==
    IF "MinerIndex" \notin Tables(database) THEN OperationalError
    ELSE [kind |-> "DataBoxLabelSizes",
          rows |-> {[source             |-> source,
                     label_value        |-> GetById(d, id),
                     content_size_bytes |->
                         SumContentSizeBytesOf({j \in JoinedOfSource(database, source) :
                                                    j.row.labelId = id}),
                     adj_content_size_bytes |->
                         AdjContentSizeBytes(database,
                             {j \in JoinedOfSource(database, source) :
                                  j.row.labelId = id})] :
                        source \in Sources,
                        id \in {r.labelId : r \in database.MinerIndex}}]

\* read_databox_miners()
ReadDataboxMinersCall ==
    /\ ret' = [call |-> [op |-> "read_databox_miners"], value |-> ReadDataboxMiners(db)]
    /\ before' = NoBefore
    /\ UNCHANGED <<db, label_dict, now, submitted, threadVars>>

\* read_databox_age_sizes()
ReadDataboxAgeSizesCall ==
    /\ ret' = [call |-> [op |-> "read_databox_age_sizes"], value |-> ReadDataboxAgeSizes(db)]
    /\ before' = NoBefore
    /\ UNCHANGED <<db, label_dict, now, submitted, threadVars>>

\* read_databox_label_sizes()
ReadDataboxLabelSizesCall ==
    /\ ret' = [call  |-> [op |-> "read_databox_label_sizes"],
               value |-> ReadDataboxLabelSizes(db, label_dict)]
    /\ before' = NoBefore
    /\ UNCHANGED <<db, label_dict, now, submitted, threadVars>>

DataboxNext ==
    \/ \E h \in Hotkeys, c \in Credibilities, i \in Indexes :
           UpsertCompressedMinerIndex(h, c, i)
    \/ \E h \in Hotkeys : DeleteMinerCall(h)
    \/ ReadDataboxMinersCall
    \/ ReadDataboxAgeSizesCall
    \/ ReadDataboxLabelSizesCall

DataboxSpec == Init /\ [][DataboxNext]_vars

IsAggregation ==
    ret.call.op \in {"read_databox_miners", "read_databox_age_sizes",
                     "read_databox_label_sizes"}

\* The sum of the sizes of a set of bucket records.
RECURSIVE SumOfRecords(_)
SumOfRecords(records) ==
    IF records = {} THEN 0
    ELSE LET r == CHOOSE v \in records : TRUE
         IN  r.contentSizeBytes + SumOfRecords(records \ {r})

\* C24: an aggregation read returns without error, and its totals are the sums
\* over the records of the Reddit and Twitter tables: per miner, whatever its
\* credibility, per time bucket and per label of each source.
C24_AggregationsReturnTotals ==
    IsAggregation =>
        /\ ret.value # OperationalError
        /\ ret.call.op = "read_databox_miners" =>
               \A m \in db.Miner : \E row \in ret.value.rows :
                   /\ row.hotkey = m.hotkey
                   /\ row.content_size_bytes_reddit
                          = SumOfRecords({r \in db.Reddit : r.minerId = m.minerId})
                   /\ row.content_size_bytes_twitter
                          = SumOfRecords({r \in db.Twitter : r.minerId = m.minerId})
        /\ ret.call.op = "read_databox_age_sizes" =>
               \A source \in Sources : \A r \in TableOf(db, source) :
                   \E row \in ret.value.rows :
                       /\ row.source = source
                       /\ row.time_bucket_id = r.timeBucketId
                       /\ row.content_size_bytes
                              = SumOfRecords({v \in TableOf(db, source) :
                                                  v.timeBucketId = r.timeBucketId})
        /\ ret.call.op = "read_databox_label_sizes" =>
               \A source \in Sources : \A r \in TableOf(db, source) :
                   \E row \in ret.value.rows :
                       /\ row.source = source
                       /\ row.label_value = GetById(label_dict, r.labelId)
                       /\ row.content_size_bytes
                              = SumOfRecords({v \in TableOf(db, source) :
                                                  v.labelId = r.labelId})

(***************************************************************************)
(* The scoring formula, read against the store (serial specification).     *)
(***************************************************************************)
\* The holders of a returned bucket's key whose miner has credibility above 0.
CreditedHolders(b) ==
    {r \in Holders(b.source, b.label, b.time_bucket_id) :
        ~DIsZero(CredibilityOf(db, r.minerId))}

\* C25: a returned bucket scores size * (size * credibility) / totalAdjusted,
\* truncated, totalAdjusted being the sum of size * credibility over the
\* holders of the bucket's key.  Stated where the quotient is a quotient of
\* integers: the holders of credibility above 0 all have one credibility, which
\* then cancels, and their sizes sum to more than 0.
C25_ScorableBytesByFormula ==
    IsIndexRead =>
        \A i \in 1..Len(ReadBuckets) :
            LET b == ReadBuckets[i]
            IN  (/\ SumOfRecords(CreditedHolders(b)) > 0
                 /\ \A r, v \in CreditedHolders(b) :
                        CredibilityOf(db, r.minerId) = CredibilityOf(db, v.minerId))
                => b.scorable_bytes =
                       IF DIsZero(ReaderCredibility) THEN 0
                       ELSE (b.size_bytes * b.size_bytes)
                                \div SumOfRecords(CreditedHolders(b))

\* C25 on credibilities 0 and 1 only, where the products and the sum of the
\* scoring query are whole numbers.
C25_WholeCredibilities ==
    (\A m \in db.Miner : m.credibility \in {Credibility0, Credibility1})
        => C25_ScorableBytesByFormula

\* Two miners hold one key with size 100 and credibility 1, and the one read
\* scores 50.
C25_TwoEqualClaimants ==
    /\ IsIndexRead
    /\ \E i \in 1..Len(ReadBuckets) :
           /\ ReadBuckets[i].size_bytes = 100
           /\ ReadBuckets[i].scorable_bytes = 50
           /\ Cardinality(CreditedHolders(ReadBuckets[i])) = 2
           /\ \A r \in CreditedHolders(ReadBuckets[i]) :
                  /\ r.contentSizeBytes = 100
                  /\ CredibilityOf(db, r.minerId) = Credibility1

\* The records a store holds for a (source, label, timeBucket) key.
HoldersIn(database, d, source, label, timeBucketId) ==
    {r \in TableOf(database, source) :
        /\ GetById(d, r.labelId) = StoredLabel(label)
        /\ r.timeBucketId = timeBucketId}

\* What the scoring expression gives a miner of this size and credibility for
\* a key with these holders in the store.
ScoreAmong(database, size, credibility, holders) ==
    IntOrZero(ScorableBytes(size, credibility,
                            IF holders = {} THEN SqlNull
                            ELSE SumAdjusted(database, RowsInOrder(holders), DZero))).value

\* The record a miner holds among the holders of a key.
RecordOf(database, hotkey, holders) ==
    {r \in holders : \E m \in MinerRows(database, hotkey) : m.minerId = r.minerId}

\* C26, in a state: the scorable bytes a read returns are those of the records
\* and credibilities stored when it is made: the reader's stored credibility
\* and the stored holders of each bucket's key.
ReadReflectsStore ==
    IsIndexRead =>
        \A i \in 1..Len(ReadBuckets) :
            LET b == ReadBuckets[i]
            IN  b.scorable_bytes =
                    ScoreAmong(db, b.size_bytes, ReaderCredibility,
                               HoldersIn(db, label_dict, b.source, b.label,
                                         b.time_bucket_id))

\* The buckets of a read made right after delete_miner of another miner, that
\* miner having been the only other holder of the bucket's key.
AfterDeleteOfOtherHolder(b) ==
    LET was == HoldersIn(before.db, before.label_dict, b.source, b.label,
                         b.time_bucket_id)
    IN  /\ ret.call.op = "delete_miner"
        /\ ret'.call.op = "read_miner_index"
        /\ ret'.call.hotkey # ret.call.hotkey
        /\ Cardinality(was) = 2
        /\ RecordOf(before.db, ret.call.hotkey, was) # {}

ReadBucketsNext ==
    IF ret'.value.kind = "ScorableMinerIndex"
    THEN {ret'.value.scorable_data_entity_buckets[i] :
              i \in 1..Len(ret'.value.scorable_data_entity_buckets)}
    ELSE {}

ReaderNext == CHOOSE m \in MinerRows(db, ret'.call.hotkey) : TRUE

\* C26, in a step: once the only other holder of a key is deleted, the bucket
\* of a miner of credibility above 0 scores its full size.
ReadAfterDeleteScoresFullSize ==
    \A b \in ReadBucketsNext :
        (AfterDeleteOfOtherHolder(b) /\ ~DIsZero(ReaderNext.credibility))
            => b.scorable_bytes = b.size_bytes

\* C26: scorable bytes are computed from the store as it is at the read, not
\* as it was at the reader's own upsert: they are those of the records and
\* credibilities stored, and a bucket scores its full size again once the only
\* other holder of its key is deleted.
C26_ScoredAtReadTime == []ReadReflectsStore /\ [][ReadAfterDeleteScoresFullSize]_vars

\* The same step, scored as the code scores a miner that alone holds the key,
\* which is the full size for credibility 1.
ReadAfterDeleteScoresAsAlone ==
    \A b \in ReadBucketsNext :
        AfterDeleteOfOtherHolder(b)
            => /\ b.scorable_bytes =
                      ScoreAmong(db, b.size_bytes, ReaderNext.credibility,
                                 RecordOf(db, ret'.call.hotkey,
                                          HoldersIn(db, label_dict, b.source, b.label,
                                                    b.time_bucket_id)))
               /\ ReaderNext.credibility = Credibility1
                      => b.scorable_bytes = b.size_bytes

C26_ScoredAtReadTimeAsAlone == []ReadReflectsStore /\ [][ReadAfterDeleteScoresAsAlone]_vars

\* A read that shows another miner's later upsert: a miner upserted first, alone in the store; another miner
\* upserted the same key after it; the first miner's read returns the bucket
\* scored below its size.
C26_ReadShowsLaterUpsert ==
    /\ IsIndexRead
    /\ now = 2
    /\ \E m \in MinerRows(db, ret.call.hotkey) : m.lastUpdated = 1
    /\ \E i \in 1..Len(ReadBuckets) :
           /\ ReadBuckets[i].scorable_bytes < ReadBuckets[i].size_bytes
           /\ \E r \in Holders(ReadBuckets[i].source, ReadBuckets[i].label,
                               ReadBuckets[i].time_bucket_id) :
                  /\ CredibilityOf(db, r.minerId) = Credibility1
                  /\ \E o \in db.Miner : o.minerId = r.minerId /\ o.lastUpdated = 2

(***************************************************************************)
(* The reuse pool of the interner.                                         *)
(***************************************************************************)
\* get_or_insert of a key that had no id.
InsertsNewKey ==
    /\ ret.call.op = "get_or_insert"
    /\ ret.call.key \notin LiveKeys(before.label_dict)

\* C27: a freed id is reused before a new one is allocated: get_or_insert of
\* a key that is not live takes its id from the pool when the pool is not
\* empty and leaves the length of the slot table as it is; a slot is appended
\* only when the pool is empty; so the table is never longer than the largest
\* number of keys that were live at the same time.
C27_FreedIdsReusedFirst ==
    /\ InsertsNewKey /\ before.label_dict.available_ids # {}
          => /\ ret.value.id \in before.label_dict.available_ids
             /\ label_dict.available_ids =
                    before.label_dict.available_ids \ {ret.value.id}
             /\ Len(label_dict.items) = Len(before.label_dict.items)
    /\ InsertsNewKey /\ before.label_dict.available_ids = {}
          => /\ ret.value.id = Len(before.label_dict.items)
             /\ Len(label_dict.items) = Len(before.label_dict.items) + 1
    /\ Len(label_dict.items) > Len(before.label_dict.items)
          => InsertsNewKey /\ before.label_dict.available_ids = {}
    /\ Len(label_dict.items) <= MostLive

\* C27 witness: with two ids in the pool and one key live, get_or_insert gave
\* a new key one of the two, the table staying three slots long, three keys
\* having been live at once before.
C27_Witness ==
    /\ InsertsNewKey
    /\ Cardinality(before.label_dict.available_ids) = 2
    /\ ret.value.id \in before.label_dict.available_ids
    /\ Len(label_dict.items) = 3
    /\ MostLive = 3
    /\ Cardinality(LiveKeys(label_dict)) = 2

(***************************************************************************)
(* Concurrent upserts and deletes: the rows the records hang on.           *)
(***************************************************************************)
\* The bucket records whose minerId is that of no Miner row.
RecordsWithoutMiner(database) ==
    UNION {{r \in TableOf(database, source) :
                \A m \in database.Miner : m.minerId # r.minerId} : source \in Sources}

\* C28: under every interleaving of upserts and deletes every stored bucket
\* record has the minerId of a Miner row, so no miner created later is given
\* a minerId under which records of a deleted miner are stored.
C28_RecordsBelongToMinerRows == RecordsWithoutMiner(db) = {}

\* A miner created later owns the records of a deleted miner: the second
\* upsert of the behaviour has created the Miner row of its hotkey and stored
\* no record yet, the first upsert was for the other hotkey, and records are
\* stored under the minerId of the new row.
C28_NewMinerOwnsOldRecords ==
    \E t \in Threads :
        /\ pc[t] = "parse"
        /\ frame[t].now_str = 2
        /\ \A u \in Threads \ {t} : pc[u] = "idle"
        /\ ret.call.op = "upsert_compressed_miner_index"
        /\ ret.call.hotkey # call[t].hotkey
        /\ \E m \in MinerRows(db, call[t].hotkey) :
              /\ m.minerId = frame[t].miner_id
              /\ \E r \in db.Reddit \cup db.Twitter : r.minerId = m.minerId

(***************************************************************************)
(* Two upserts for one hotkey.                                             *)
(***************************************************************************)
\* The buckets stored for a hotkey, each under the label its labelId resolves to.
StoredBuckets(database, d, hotkey) ==
    UNION {{[source         |-> source,
             label          |-> GetById(d, r.labelId),
             time_bucket_id |-> r.timeBucketId,
             size_bytes     |-> r.contentSizeBytes] :
            r \in {q \in TableOf(database, source) :
                      \E m \in MinerRows(database, hotkey) : m.minerId = q.minerId}} :
           source \in Sources}

\* The Miner row of the hotkey of an upsert call holds the credibility of the
\* call and the clock value it read.
RowFrom(database, c, now_str) ==
    \E m \in MinerRows(database, c.hotkey) :
        m.credibility = c.credibility /\ m.lastUpdated = now_str

\* The buckets stored for the hotkey of an upsert call are those of its index.
BucketsFrom(database, d, c) ==
    StoredBuckets(database, d, c.hotkey) = ExpectedBuckets(c.index)

\* Thread t returns from the second of the two upserts of a behaviour, the
\* first having returned for the same hotkey.
ReturnsAfterUpsertOfSameHotkey(t) ==
    /\ pc[t] = "replace"
    /\ pc'[t] = "idle"
    /\ now = 2
    /\ ret.call.op = "upsert_compressed_miner_index"
    /\ ret.call.hotkey = call[t].hotkey

\* The store after the step holds the row and the buckets of one call: the
\* one that returns in the step or the one that returned before it.
StoreFromOneCall(t) ==
    \/ /\ RowFrom(db', call[t], frame[t].now_str)
       /\ BucketsFrom(db', label_dict', call[t])
    \/ /\ \E n \in (1..MaxTime) \ {frame[t].now_str} : RowFrom(db', ret.call, n)
       /\ BucketsFrom(db', label_dict', ret.call)

\* C29: when two upserts for the same hotkey have both returned, the stored
\* credibility, the stored lastUpdated and the stored buckets are those of one
\* of the two calls.
C29_StoreFromOneOfTwoCalls ==
    [][\A t \in Threads : ReturnsAfterUpsertOfSameHotkey(t) => StoreFromOneCall(t)]_vars

\* The same with the buckets compared by source and time bucket alone, which
\* no assignment of label ids changes.
SlotsFrom(database, c) ==
    UNION {{<<source, r.timeBucketId>> :
            r \in {q \in TableOf(database, source) :
                      \E m \in MinerRows(database, c.hotkey) : m.minerId = q.minerId}} :
           source \in Sources}
        = {<<b.source, b.time_bucket_id>> : b \in ExpectedBuckets(c.index)}

C29_SlotsFromOneOfTwoCalls ==
    [][\A t \in Threads :
           ReturnsAfterUpsertOfSameHotkey(t) =>
               \/ RowFrom(db', call[t], frame[t].now_str) /\ SlotsFrom(db', call[t])
               \/ /\ \E n \in (1..MaxTime) \ {frame[t].now_str} : RowFrom(db', ret.call, n)
                  /\ SlotsFrom(db', ret.call)]_vars

(***************************************************************************)
(* Concurrent upserts: the ids of a label.                                 *)
(***************************************************************************)
\* C30: under every interleaving of upserts a label has one id: two stored
\* records of the same label, of one miner or of two, have the same labelId,
\* so the scoring query, which groups by labelId, puts them in one group.
C30_OneIdPerLabel ==
    \A r, v \in db.Reddit \cup db.Twitter :
        LabelOf(r) = LabelOf(v) => r.labelId = v.labelId

\* Two miners hold the same (source, label, time bucket) and the scoring
\* query counts each alone: their records have different labelIds.
C30_SameKeyScoredApart ==
    \E source \in Sources : \E r, v \in TableOf(db, source) :
        /\ r.minerId # v.minerId
        /\ \A q \in {r, v} : \E m \in db.Miner : m.minerId = q.minerId
        /\ LabelOf(r) = LabelOf(v)
        /\ r.timeBucketId = v.timeBucketId
        /\ r.labelId # v.labelId

(***************************************************************************)
(* The three structures of the interner.                                   *)
(***************************************************************************)
\* The ids of the slots of self.items.
SlotIds(d) == {i - 1 : i \in DOMAIN d.items}

\* C31: after every sequence of get_or_insert and delete_key calls made one
\* after the other with keys that are not None, indexes[k] = i exactly when
\* items[i] = k, available_ids is the set of the slots that hold None, and no
\* id of available_ids is the id of a live key.
C31_StructuresAgree ==
    /\ \A k \in LiveKeys(label_dict) : label_dict.indexes[k] \in SlotIds(label_dict)
    /\ \A k \in InternerKeys : \A i \in SlotIds(label_dict) :
          (k \in LiveKeys(label_dict) /\ label_dict.indexes[k] = i)
              <=> GetById(label_dict, i) = k
    /\ label_dict.available_ids =
          {i \in SlotIds(label_dict) : GetById(label_dict, i) = FreeSlot}
    /\ \A k \in LiveKeys(label_dict) :
          label_dict.indexes[k] \notin label_dict.available_ids

\* C31 witness: delete_key has just freed the slot of a live key, a slot freed
\* before it has been given to another key, and a third slot is free.
C31_Witness ==
    /\ ret.call.op = "delete_key"
    /\ ret.call.key \in LiveKeys(before.label_dict)
    /\ Len(label_dict.items) = 3
    /\ Cardinality(label_dict.available_ids) = 2
    /\ \E k \in LiveKeys(label_dict) : GetById(label_dict, 0) = k /\ k # "a"

====
